---- MODULE Spec2Model ----
(***************************************************************************)
(* State-machine model of the pulsar-agent-turbo control core:             *)
(*   - the action engine (class Action: perform, timeout timer, process    *)
(*     events, cancelAction, getResult),                                   *)
(*   - the planner (class Planner: build, update, progress,                *)
(*     updateFromAction) and the plan validator validatePlan.              *)
(* Strings of the program are kept as strings; JavaScript null/undefined   *)
(* are the values named below.                                             *)
(***************************************************************************)
EXTENDS Integers, Sequences, FiniteSets, TLC

VARIABLES
    runName,        \* runId -> the `name` captured by the closures of perform ("" = id not allocated)
    runningActions, \* Action.runningActions: set of run ids that have a ChildProcess entry
    proc,           \* the ChildProcess object of each run id
    completedActions, \* Action.completedActions: runId -> ActionResult (NoResult = no entry)
    timers,         \* run ids whose scheduleTimeout timer is armed
    graceTimers,    \* run ids whose 5 s cancel grace timer is armed
    timeoutKilled,  \* history: run ids whose timer fired while the process was still running
    plan,           \* the Plan object held by the caller of the Planner
    okFed,          \* history: ok results fed since build with nothing else in between (-1 = not tracked)
    cand,           \* the Plan handed to validatePlan or to Decider.next
    ret,            \* the value returned (or the exception thrown) by the most recent call
    agent,          \* the run of Agent.ask/orchestrate/executePlanLoop: position and locals
    config,         \* Agent.config and Agent.feedbackHandler
    events,         \* the events emitEvent has emitted, in order
    feedback,       \* Action.feedback: runId -> list of Feedback
    feedbackHandler, \* Agent.feedbackHandler when several runs share the agent (0 = undefined)
    runs,           \* the runs started by concurrent calls of Agent.ask
    llm,            \* the call of BaseLLMClient.retryWithBackoff in progress
    registry,       \* Action.actions (a Map): the names registered, in insertion order
    loader,         \* the loadActions call in progress: the directory entry it reads next (0 = none)
    stored          \* history: the run ids in the order handleProcessCompletion stored their results

vars == <<runName, runningActions, proc, completedActions, timers, graceTimers,
          timeoutKilled, plan, okFed, cand, ret, agent, config, events, feedback,
          feedbackHandler, runs, llm, registry, loader, stored>>

actionVars == <<runName, runningActions, proc, completedActions, timers, graceTimers,
                timeoutKilled>>

planVars == <<plan, okFed>>

registryVars == <<registry, loader>>

sideVars == <<feedbackHandler, runs, llm, registry, loader, stored>>

agentVars ==
    <<agent, config, events, feedback, feedbackHandler, runs, llm, registry, loader, stored>>

-----------------------------------------------------------------------------
(* Bounds *)

MaxRuns == 1

MaxSteps == 3

MaxFed == 3

RunIds == 1..MaxRuns

-----------------------------------------------------------------------------
(* Action engine: registry and values *)

\* The action directories under the actions home, in the order readdir lists
\* them; loadActions registers them in this order.
ActionOrder == <<"alpha", "beta">>

RequiredArgs(name) ==
    IF name = "alpha" THEN {"query"} ELSE {}

\* this.actions.get(name) finds an entry.
Registered(name) ==
    \E i \in 1..Len(registry) : registry[i] = name

Names == {"alpha", "beta", "missing_action"}

ArgSets == SUBSET {"query", "extra"}

NoRet == [op |-> "none"]

NoResult == [actionRunId |-> 0, name |-> "", status |-> "absent", error |-> ""]

NoProcess == [state |-> "none", exitCode |-> "null", killed |-> FALSE, signals |-> {}]

NewProcess == [state |-> "alive", exitCode |-> "null", killed |-> FALSE, signals |-> {}]

\* What the child has written on standard output when 'close' is handled.
Outputs == {"empty", "garbage", "json_ok", "json_error", "json_nostatus", "json_other"}

\* validateArguments with the check of the required arguments left out.
validateArgumentsUnchecked(name, args) ==
    ""

\* validateArguments: "" when it returns, else the message of the Error it throws.
validateArguments(name, args) ==
    IF \E a \in RequiredArgs(name) : a \notin args
    THEN "Required argument missing"
    ELSE ""

\* getActionNameByRunId: the first key of the registry, whatever the run id.
getActionNameByRunId(r) ==
    IF Len(registry) > 0 THEN registry[1] ELSE "unknown"

\* getResult: the stored result, or NoResult (null) when there is none.
getResult(r) ==
    completedActions[r]

\* A process counts as still running for the engine when exitCode is null and
\* killed is false.
LooksAlive(p) ==
    p.exitCode = "null" /\ ~p.killed

\* ChildProcess.kill: the signal is sent and `killed` set only while the process
\* handle exists; on a process that is gone it returns false and changes nothing.
Kill(p, sig) ==
    IF p.state = "alive"
    THEN [p EXCEPT !.killed = TRUE, !.signals = @ \cup {sig}]
    ELSE p

\* The ActionResult handleProcessCompletion builds from standard output.
CompletionResult(r, name, out) ==
    CASE out = "garbage" ->
            [actionRunId |-> r, name |-> name, status |-> "error",
             error |-> "Failed to parse action output"]
      [] out = "json_ok" ->
            [actionRunId |-> r, name |-> name, status |-> "ok", error |-> "undefined"]
      [] out = "json_error" ->
            [actionRunId |-> r, name |-> name, status |-> "error", error |-> "action error"]
      [] out = "json_other" ->
            [actionRunId |-> r, name |-> name, status |-> "other", error |-> "undefined"]
      [] OTHER ->
            [actionRunId |-> r, name |-> name, status |-> "error", error |-> "undefined"]

-----------------------------------------------------------------------------
(* Action engine: operations *)

\* perform(name, args). `r` is the id randomUUID returns, `spawn` the outcome of
\* child_process.spawn ("ok", or "throws" for a synchronous exception).
perform(name, args, r, spawn) ==
    /\ UNCHANGED <<plan, okFed, cand, graceTimers, timeoutKilled>>
    /\ IF ~Registered(name)
       THEN /\ ret' = [op |-> "perform", threw |-> TRUE, runId |-> 0]
            /\ UNCHANGED <<runName, runningActions, proc, completedActions, timers>>
       ELSE /\ runName[r] = ""
            /\ runName' = [runName EXCEPT ![r] = name]
            /\ ret' = [op |-> "perform", threw |-> FALSE, runId |-> r]
            /\ IF validateArguments(name, args) # ""
               THEN /\ completedActions' = [completedActions EXCEPT ![r] =
                            [actionRunId |-> r, name |-> name, status |-> "error",
                             error |-> validateArguments(name, args)]]
                    /\ UNCHANGED <<runningActions, proc, timers>>
               ELSE IF spawn = "throws"
               THEN /\ completedActions' = [completedActions EXCEPT ![r] =
                            [actionRunId |-> r, name |-> name, status |-> "error",
                             error |-> "spawn failed"]]
                    /\ UNCHANGED <<runningActions, proc, timers>>
               ELSE /\ proc' = [proc EXCEPT ![r] = NewProcess]
                    /\ runningActions' = runningActions \cup {r}
                    /\ timers' = timers \cup {r}
                    /\ UNCHANGED completedActions

\* A variant of the timer callback without its tests of the running table and
\* of the process: it kills and stores the timeout result whenever it fires.
scheduleTimeoutUnchecked(r) ==
    /\ r \in timers
    /\ timers' = timers \ {r}
    /\ UNCHANGED <<plan, okFed, cand, ret, runName, graceTimers>>
    /\ proc' = [proc EXCEPT ![r] = Kill(@, "SIGKILL")]
    /\ runningActions' = runningActions \ {r}
    /\ completedActions' = [completedActions EXCEPT ![r] =
            [actionRunId |-> r, name |-> getActionNameByRunId(r),
             status |-> "timeout", error |-> "Action timed out"]]
    /\ timeoutKilled' = timeoutKilled \cup {r}

\* The timer of scheduleTimeout fires for run r.
scheduleTimeout(r) ==
    /\ r \in timers
    /\ timers' = timers \ {r}
    /\ UNCHANGED <<plan, okFed, cand, ret, runName, graceTimers>>
    /\ IF r \in runningActions /\ LooksAlive(proc[r])
       THEN /\ proc' = [proc EXCEPT ![r] = Kill(@, "SIGKILL")]
            /\ runningActions' = runningActions \ {r}
            /\ completedActions' = [completedActions EXCEPT ![r] =
                    [actionRunId |-> r, name |-> getActionNameByRunId(r),
                     status |-> "timeout", error |-> "Action timed out"]]
            /\ timeoutKilled' = timeoutKilled \cup {r}
       ELSE UNCHANGED <<proc, runningActions, completedActions, timeoutKilled>>

\* handleProcessCompletion: the 'close' event of the process of run r.
handleProcessCompletion(r, out) ==
    /\ proc[r].state = "exited"
    /\ proc' = [proc EXCEPT ![r].state = "closed"]
    /\ completedActions' = [completedActions EXCEPT ![r] =
            CompletionResult(r, runName[r], out)]
    /\ runningActions' = runningActions \ {r}
    /\ UNCHANGED <<plan, okFed, cand, ret, runName, timers, graceTimers, timeoutKilled>>

\* The 'error' event handler installed by perform (spawn failure). `closes`
\* tells whether the runtime emits 'close' afterwards.
processError(r, closes) ==
    /\ proc[r].state = "alive"
    /\ proc[r].signals = {}
    /\ proc' = [proc EXCEPT ![r].state = IF closes THEN "exited" ELSE "closed",
                            ![r].exitCode = "number"]
    /\ completedActions' = [completedActions EXCEPT ![r] =
            [actionRunId |-> r, name |-> runName[r], status |-> "error",
             error |-> "spawn error"]]
    /\ runningActions' = runningActions \ {r}
    /\ UNCHANGED <<plan, okFed, cand, ret, runName, timers, graceTimers, timeoutKilled>>

\* The child process ends: by itself with an exit code ("number"), or by a
\* signal, which leaves exitCode null.
processExit(r, how) ==
    /\ proc[r].state = "alive"
    /\ proc' = [proc EXCEPT ![r].state = "exited",
                            ![r].exitCode = IF how = "signal" THEN "null" ELSE "number"]
    /\ UNCHANGED <<plan, okFed, cand, ret, runName, runningActions, completedActions,
                   timers, graceTimers, timeoutKilled>>

\* A variant of cancelAction that cancels every id found in the running table,
\* whatever the state of its process.
cancelActionAnyProcess(r) ==
    /\ UNCHANGED <<plan, okFed, cand, runName, timers, timeoutKilled>>
    /\ IF r \in runningActions
       THEN /\ proc' = [proc EXCEPT ![r] = Kill(@, "SIGTERM")]
            /\ graceTimers' = graceTimers \cup {r}
            /\ runningActions' = runningActions \ {r}
            /\ completedActions' = [completedActions EXCEPT ![r] =
                    [actionRunId |-> r, name |-> getActionNameByRunId(r),
                     status |-> "error", error |-> "Action was cancelled"]]
            /\ ret' = [op |-> "cancelAction", result |-> TRUE, runId |-> r]
       ELSE /\ ret' = [op |-> "cancelAction", result |-> FALSE, runId |-> r]
            /\ UNCHANGED <<proc, graceTimers, runningActions, completedActions>>

\* cancelAction(runId).
cancelAction(r) ==
    /\ UNCHANGED <<plan, okFed, cand, runName, timers, timeoutKilled>>
    /\ IF r \in runningActions /\ LooksAlive(proc[r])
       THEN /\ proc' = [proc EXCEPT ![r] = Kill(@, "SIGTERM")]
            /\ graceTimers' = graceTimers \cup {r}
            /\ runningActions' = runningActions \ {r}
            /\ completedActions' = [completedActions EXCEPT ![r] =
                    [actionRunId |-> r, name |-> getActionNameByRunId(r),
                     status |-> "error", error |-> "Action was cancelled"]]
            /\ ret' = [op |-> "cancelAction", result |-> TRUE, runId |-> r]
       ELSE /\ ret' = [op |-> "cancelAction", result |-> FALSE, runId |-> r]
            /\ UNCHANGED <<proc, graceTimers, runningActions, completedActions>>

\* The 5 s grace timer set by cancelAction fires.
cancelGraceTimer(r) ==
    /\ r \in graceTimers
    /\ graceTimers' = graceTimers \ {r}
    /\ proc' = [proc EXCEPT ![r] = IF LooksAlive(@) THEN Kill(@, "SIGKILL") ELSE @]
    /\ UNCHANGED <<plan, okFed, cand, ret, runName, runningActions, completedActions,
                   timers, timeoutKilled>>

-----------------------------------------------------------------------------
(* Specification of the action engine *)

NoPlan == [task |-> "", steps |-> <<>>, updatedAt |-> "none"]

\* No run: Agent.ask has not been called.
NoAgent ==
    [pc |-> "idle", handle |-> "none",
     advisory |-> [status |-> "none", reason |-> ""],
     actionRunId |-> 0, end |-> "", waitTimer |-> FALSE, handler |-> "none"]

\* A run of a shared agent before its ask call.
NoRun ==
    [pc |-> "idle", handler |-> FALSE, iterations |-> 0, invoked |-> {}]

\* No retryWithBackoff call in progress.
NoCall ==
    [pc |-> "idle", site |-> "", attempt |-> 0, outcomes |-> <<>>, delays |-> <<>>,
     result |-> ""]

\* createDefaultAgentConfig, with no feedback handler stored.
DefaultConfig ==
    [executionMode |-> "interactive", implicitSuccessOnOk |-> TRUE, hasHandler |-> FALSE]

InitEngine ==
    /\ agent = NoAgent
    /\ config = DefaultConfig
    /\ events = <<>>
    /\ feedback = [r \in RunIds |-> <<>>]
    /\ feedbackHandler = 0
    /\ runs = <<>>
    /\ llm = NoCall
    /\ registry = ActionOrder
    /\ loader = 0
    /\ stored = <<>>
    /\ runName = [r \in RunIds |-> ""]
    /\ runningActions = {}
    /\ proc = [r \in RunIds |-> NoProcess]
    /\ completedActions = [r \in RunIds |-> NoResult]
    /\ timers = {}
    /\ graceTimers = {}
    /\ timeoutKilled = {}
    /\ plan = NoPlan
    /\ okFed = -1
    /\ ret = NoRet

Init ==
    /\ InitEngine
    /\ cand = NoPlan

Next ==
    \/ \E name \in Names, args \in ArgSets, r \in RunIds, spawn \in {"ok", "throws"} :
          perform(name, args, r, spawn) /\ UNCHANGED agentVars
    \/ \E r \in RunIds : scheduleTimeout(r) /\ UNCHANGED agentVars
    \/ \E r \in RunIds, out \in Outputs :
          handleProcessCompletion(r, out) /\ UNCHANGED agentVars
    \/ \E r \in RunIds, closes \in BOOLEAN : processError(r, closes) /\ UNCHANGED agentVars
    \/ \E r \in RunIds, how \in {"code", "signal"} :
          processExit(r, how) /\ UNCHANGED agentVars
    \/ \E r \in RunIds : cancelAction(r) /\ UNCHANGED agentVars
    \/ \E r \in RunIds : cancelGraceTimer(r) /\ UNCHANGED agentVars

Spec == Init /\ [][Next]_vars

-----------------------------------------------------------------------------
(* Planner: values *)

\* Step ids are strings in the program; <<"s", i>> stands for the i-th id the
\* backend uses, EmptyId for ''.
StepId(i) == <<"s", i>>

FallbackId == <<"fallback_step", 0>>

EmptyId == <<"", 0>>

Statuses == {"pending", "running", "done", "blocked"}

\* ActionResult.status as handed to the planner; "other" is any string that is
\* none of the three.
ResultStatuses == {"ok", "error", "timeout", "other"}

\* Values of new Date().toISOString(): the time the plan was created, and any
\* later time.
Created == "created"

Later == "later"

Requests == {"", "req"}

Min(S) == CHOOSE x \in S : \A y \in S : x <= y

\* The deps list the backend gives step i of n: none, the previous step, the
\* next step, or both (ids 0 and n+1 name no step).
DepsOf(kind, i) ==
    CASE kind = "prev" -> <<StepId(i - 1)>>
      [] kind = "next" -> <<StepId(i + 1)>>
      [] kind = "both" -> <<StepId(i - 1), StepId(i + 1)>>
      [] OTHER -> <<>>

\* Plan data as the generative backend returns it to build: n steps, each with
\* its own id or the id of the first step again.
PlanDataOf(n) ==
    { [task |-> tk,
       steps |-> [i \in 1..n |->
                    [id |-> IF dup[i] THEN StepId(1) ELSE StepId(i),
                     desc |-> "d",
                     deps |-> DepsOf(dk[i], i)]]] :
        tk \in {"", "task"},
        dup \in [1..n -> BOOLEAN],
        dk \in [1..n -> {"none", "prev", "next", "both"}] }

PlanData == UNION { PlanDataOf(n) : n \in 0..MaxSteps }

\* Outcomes of generatePlanWithLLM: plan data, data without a steps list, or an
\* exception.
BuildOutcomes ==
    { [kind |-> "data", data |-> d] : d \in PlanData }
        \cup { [kind |-> "nosteps", data |-> [task |-> "task", steps |-> <<>>]],
               [kind |-> "throws", data |-> [task |-> "", steps |-> <<>>]] }

-----------------------------------------------------------------------------
(* Planner: functions *)

StepIdsOf(p) == { p.steps[i].id : i \in 1..Len(p.steps) }

\* validatePlan without the check that dependencies refer to existing steps.
validatePlanNoDeps(p) ==
    p.task # "" /\ Cardinality(StepIdsOf(p)) = Len(p.steps)

\* validatePlan(plan).
validatePlan(p) ==
    IF p.task = ""
    THEN FALSE
    ELSE IF Cardinality(StepIdsOf(p)) # Len(p.steps)
    THEN FALSE
    ELSE \A i \in 1..Len(p.steps) :
            \A k \in 1..Len(p.steps[i].deps) : p.steps[i].deps[k] \in StepIdsOf(p)

\* createPlanFromData(request, planData).
createPlanFromData(request, data) ==
    [task |-> IF data.task # "" THEN data.task ELSE request,
     steps |-> [i \in 1..Len(data.steps) |->
                  [id |-> data.steps[i].id,
                   desc |-> data.steps[i].desc,
                   status |-> "pending",
                   deps |-> data.steps[i].deps]],
     updatedAt |-> Created]

\* createFallbackPlan(request, error).
createFallbackPlan(request, error) ==
    [task |-> request,
     steps |-> << [id |-> FallbackId,
                   desc |-> <<"Complete the task", request, error>>,
                   status |-> "pending",
                   deps |-> <<>>] >>,
     updatedAt |-> Created]

\* Planner.build with the validatePlan check left out.
buildPlanUnvalidated(request, outcome) ==
    CASE outcome.kind = "throws" -> createFallbackPlan(request, "llm error")
      [] outcome.kind = "nosteps" -> createFallbackPlan(request, "type error")
      [] OTHER -> createPlanFromData(request, outcome.data)

\* The plan Planner.build returns for a request and a backend outcome.
buildPlan(request, outcome) ==
    CASE outcome.kind = "throws" -> createFallbackPlan(request, "llm error")
      [] outcome.kind = "nosteps" -> createFallbackPlan(request, "type error")
      [] OTHER ->
            IF validatePlan(createPlanFromData(request, outcome.data))
            THEN createPlanFromData(request, outcome.data)
            ELSE createFallbackPlan(request, "Generated plan failed validation")

\* The index of the first step with one of the given statuses, 0 if none.
FirstWithStatus(p, sts) ==
    IF \E i \in 1..Len(p.steps) : p.steps[i].status \in sts
    THEN Min({ i \in 1..Len(p.steps) : p.steps[i].status \in sts })
    ELSE 0

CompletedSteps(p) == Cardinality({ i \in 1..Len(p.steps) : p.steps[i].status = "done" })

\* Planner.progress(plan).
progress(p) ==
    LET cur == FirstWithStatus(p, {"running", "pending"})
    IN  [op |-> "progress",
         stepId |-> IF cur = 0 THEN EmptyId ELSE p.steps[cur].id,
         status |-> IF cur = 0 THEN "completed" ELSE p.steps[cur].status,
         notes |-> <<CompletedSteps(p), Len(p.steps)>>]

\* The status updateFromAction gives the running step for a result status.
StepStatusFor(res, old) ==
    CASE res = "ok" -> "done"
      [] res = "error" -> "blocked"
      [] res = "timeout" -> "blocked"
      [] OTHER -> old

\* A variant of the update that gives the new status to every running step.
UpdatedPlanEveryRunning(p, res) ==
    [p EXCEPT !.steps = [i \in 1..Len(p.steps) |->
                            IF p.steps[i].status = "running"
                            THEN [p.steps[i] EXCEPT !.status = StepStatusFor(res, @)]
                            ELSE p.steps[i]],
              !.updatedAt = IF FirstWithStatus(p, {"running"}) = 0 THEN @ ELSE Later]

\* The plan object after updateFromAction(plan, actionResult) has run on it.
UpdatedPlan(p, res) ==
    LET cur == FirstWithStatus(p, {"running"})
    IN  IF cur = 0
        THEN p
        ELSE [p EXCEPT !.steps[cur].status = StepStatusFor(res, @), !.updatedAt = Later]

\* allStepsDone computed with some() in place of every().
SomeStepDone(p) == \E i \in 1..Len(p.steps) : p.steps[i].status = "done"

AllStepsDone(p) == \A i \in 1..Len(p.steps) : p.steps[i].status = "done"

HasBlockedSteps(p) == \E i \in 1..Len(p.steps) : p.steps[i].status = "blocked"

\* The advisory updateFromAction returns; updatedPlan is the plan object itself.
Advisory(p) ==
    IF AllStepsDone(p)
    THEN [op |-> "updateFromAction", status |-> "terminate", reason |-> "goal_achieved"]
    ELSE IF HasBlockedSteps(p)
    THEN [op |-> "updateFromAction", status |-> "blocked", reason |-> "error"]
    ELSE [op |-> "updateFromAction", status |-> "continue", reason |-> "exhausted"]

\* Decider.findCurrentStep: the index of the step a decision is made for, 0 if none.
findCurrentStep(p) ==
    IF FirstWithStatus(p, {"running"}) # 0
    THEN FirstWithStatus(p, {"running"})
    ELSE LET ready == { i \in 1..Len(p.steps) :
                          /\ p.steps[i].status = "pending"
                          /\ \A k \in 1..Len(p.steps[i].deps) :
                                \E j \in 1..Len(p.steps) :
                                   /\ p.steps[j].id = p.steps[i].deps[k]
                                   /\ \A h \in 1..(j - 1) : p.steps[h].id # p.steps[i].deps[k]
                                   /\ p.steps[j].status = "done" }
         IN  IF ready = {} THEN 0 ELSE Min(ready)

\* applyPlanUpdates for update data that repeats the steps of the plan and gives
\* step i the status st.
applyPlanUpdates(p, i, st) ==
    [p EXCEPT !.steps[i].status = st, !.updatedAt = Later]

-----------------------------------------------------------------------------
(* Planner: operations *)

\* Planner.build(request, guides, knowledge).
build(request, outcome) ==
    /\ plan = NoPlan
    /\ ret.op = "none"
    /\ plan' = buildPlan(request, outcome)
    /\ okFed' = 0
    /\ ret' = [op |-> "build", threw |-> FALSE, request |-> request]
    /\ UNCHANGED <<actionVars, cand>>

\* Planner.update(plan, observation): the backend answers with the same steps
\* and a status for step i.
update(i, st) ==
    /\ plan # NoPlan
    /\ i \in 1..Len(plan.steps)
    /\ plan' = applyPlanUpdates(plan, i, st)
    /\ okFed' = -1
    /\ ret' = [op |-> "update"]
    /\ UNCHANGED <<actionVars, cand>>

\* Planner.update(plan, observation) when the backend call fails: the plan is
\* returned with a new updatedAt.
updateFails ==
    /\ plan # NoPlan
    /\ plan' = [plan EXCEPT !.updatedAt = Later]
    /\ okFed' = -1
    /\ ret' = [op |-> "update"]
    /\ UNCHANGED <<actionVars, cand>>

\* Planner.progress(plan).
callProgress ==
    /\ plan # NoPlan
    /\ ret' = progress(plan)
    /\ UNCHANGED <<actionVars, cand, plan, okFed>>

\* Planner.updateFromAction(plan, actionResult): the plan object is updated in
\* place and returned inside the advisory.
updateFromAction(res) ==
    /\ plan # NoPlan
    /\ plan' = UpdatedPlan(plan, res)
    /\ ret' = Advisory(plan')
    /\ okFed' = IF okFed >= 0 /\ okFed < MaxFed /\ res = "ok" THEN okFed + 1 ELSE -1
    /\ UNCHANGED <<actionVars, cand>>

PlanNext ==
    \/ /\ plan = NoPlan
       /\ \E request \in Requests, outcome \in BuildOutcomes :
             build(request, outcome) /\ UNCHANGED agentVars
    \/ \E i \in 1..Len(plan.steps), st \in Statuses : update(i, st) /\ UNCHANGED agentVars
    \/ updateFails /\ UNCHANGED agentVars
    \/ callProgress /\ UNCHANGED agentVars
    \/ \E res \in ResultStatuses : updateFromAction(res) /\ UNCHANGED agentVars

PlanSpec == Init /\ [][PlanNext]_vars

-----------------------------------------------------------------------------
(* Specification of validatePlan: it is applied to every candidate plan *)

\* Plans handed to validatePlan: up to MaxSteps steps, each with its own id or the
\* id of the first step again, no dependency or one on any id among the first
\* n + 1, task empty or not.
CandidatesOf(n) ==
    { [task |-> tk,
       steps |-> [i \in 1..n |->
                    [id |-> IF dup[i] THEN StepId(1) ELSE StepId(i),
                     desc |-> "d",
                     status |-> "pending",
                     deps |-> IF dp[i] = 0 THEN <<>> ELSE <<StepId(dp[i])>>]],
       updatedAt |-> Created] :
        tk \in {"", "task"},
        dup \in [1..n -> BOOLEAN],
        dp \in [1..n -> 0..(n + 1)] }

ValidateInit ==
    /\ InitEngine
    /\ \E n \in 0..MaxSteps : cand \in CandidatesOf(n)

callValidatePlan ==
    /\ ret.op = "none"
    /\ ret' = [op |-> "validatePlan", valid |-> validatePlan(cand)]
    /\ UNCHANGED <<actionVars, plan, okFed, cand>>

ValidateNext == callValidatePlan /\ UNCHANGED agentVars

ValidateSpec == ValidateInit /\ [][ValidateNext]_vars

-----------------------------------------------------------------------------
(* Decider: values and functions *)

\* No advisory (the advisory parameter of Decider.next is undefined).
NoAdvisory == [status |-> "none", reason |-> ""]

\* Advisories as Planner.updateFromAction types them.
Advisories ==
    {NoAdvisory} \cup
        { [status |-> st, reason |-> rs] :
            st \in {"continue", "terminate", "blocked"},
            rs \in {"goal_achieved", "exhausted", "error"} }

\* The action payloads the backend puts in decision data: none (<<>>) or one.
DecisionActions ==
    {<<>>} \cup { <<[name |-> nm, args |-> ar]>> :
                    nm \in {"alpha", "missing_action"}, ar \in {{}, {"query"}} }

\* Outcomes of generateDecisionWithLLM: an exception (timeout, rate limit,
\* unparsable answer), JSON null, or decision data; type "bogus" is any string
\* outside the four decision types, reason/hint "" a missing field.
DecisionOutcomes ==
    { [kind |-> "throws", type |-> "", action |-> <<>>, reason |-> "", hint |-> ""],
      [kind |-> "null", type |-> "", action |-> <<>>, reason |-> "", hint |-> ""] }
        \cup { [kind |-> "data", type |-> ty, action |-> ac, reason |-> rs, hint |-> hn] :
                  ty \in {"execute", "ask", "wait", "terminate", "bogus"},
                  ac \in DecisionActions,
                  rs \in {"", "llm reason"},
                  hn \in {"", "blocked"} }

\* Outcomes of selectRelevantAction: "" (no action scores above the threshold)
\* or the name of the best-scoring registered action.
Matches == {"", "alpha", "beta"}

\* handleTerminationAdvisory with the advisory's reason dropped.
handleTerminationAdvisoryNoReason(adv) ==
    [type |-> "terminate", action |-> <<>>,
     reason |-> "Planner advised termination", hint |-> "terminate"]

\* handleTerminationAdvisory(advisory).
handleTerminationAdvisory(adv) ==
    [type |-> "terminate", action |-> <<>>,
     reason |-> IF adv.reason # "" THEN adv.reason ELSE "Planner advised termination",
     hint |-> IF adv.reason # "" THEN adv.reason ELSE "terminate"]

\* parseDecisionFromData(decisionData).
parseDecisionFromData(d) ==
    [type |-> d.type,
     action |-> d.action,
     reason |-> IF d.reason # "" THEN d.reason ELSE "No reason provided",
     hint |-> d.hint]

\* inferActionArgs: every required argument gets a value.
inferActionArgs(name) ==
    RequiredArgs(name)

\* The reason of the ask decision handleBlockedAdvisory falls back to.
BlockedReason(adv, step) ==
    "Plan is blocked at step " \o step.desc \o ". "
        \o (IF adv.reason # "" THEN adv.reason ELSE "Unknown blockage")

\* A variant of handleBlockedAdvisory whose fallback is the general one of the
\* decider (hint continue).
handleBlockedAdvisoryPlainAsk(adv, p, out) ==
    IF FirstWithStatus(p, {"blocked"}) # 0
    THEN IF out.kind = "data"
         THEN parseDecisionFromData(out)
         ELSE [type |-> "ask", action |-> <<>>,
               reason |-> BlockedReason(adv, p.steps[FirstWithStatus(p, {"blocked"})]),
               hint |-> "continue"]
    ELSE [type |-> "terminate", action |-> <<>>,
          reason |-> "Plan execution is blocked with no clear recovery path",
          hint |-> "blocked"]

\* handleBlockedAdvisory(advisory, plan, progress) for a backend outcome.
handleBlockedAdvisory(adv, p, out) ==
    IF FirstWithStatus(p, {"blocked"}) # 0
    THEN IF out.kind = "data"
         THEN parseDecisionFromData(out)
         ELSE [type |-> "ask", action |-> <<>>,
               reason |-> BlockedReason(adv, p.steps[FirstWithStatus(p, {"blocked"})]),
               hint |-> "blocked"]
    ELSE [type |-> "terminate", action |-> <<>>,
          reason |-> "Plan execution is blocked with no clear recovery path",
          hint |-> "blocked"]

\* makeNormalDecision(plan, progress, actions, advisory) for a backend outcome
\* and an outcome of selectRelevantAction.
makeNormalDecision(p, out, match) ==
    IF findCurrentStep(p) = 0
    THEN IF AllStepsDone(p)
         THEN [type |-> "terminate", action |-> <<>>,
               reason |-> "All plan steps completed successfully", hint |-> "terminate"]
         ELSE [type |-> "wait", action |-> <<>>,
               reason |-> "No clear next step identified, waiting for guidance",
               hint |-> "continue"]
    ELSE IF out.kind = "data"
    THEN parseDecisionFromData(out)
    ELSE IF match # ""
    THEN [type |-> "execute",
          action |-> <<[name |-> match, args |-> inferActionArgs(match)]>>,
          reason |-> "Execute action for step", hint |-> ""]
    ELSE [type |-> "ask", action |-> <<>>,
          reason |-> "Cannot determine appropriate action for step", hint |-> "continue"]

\* validateDecision with the checks on the action payload left out.
validateDecisionTypeOnly(d) ==
    d.type \in {"execute", "ask", "wait", "terminate"}

\* validateDecision(decision).
validateDecision(d) ==
    IF d.type \notin {"execute", "ask", "wait", "terminate"}
    THEN FALSE
    ELSE IF d.type = "execute" /\ d.action = <<>>
    THEN FALSE
    ELSE IF d.type # "execute" /\ d.action # <<>>
    THEN FALSE
    ELSE TRUE

\* createFallbackDecision(error).
createFallbackDecision(error) ==
    [type |-> "ask", action |-> <<>>,
     reason |-> "Decision making failed (" \o error \o "), please provide guidance",
     hint |-> "continue"]

\* The decision Decider.next has in hand before it validates it.
generatedDecision(p, adv, out, match) ==
    CASE adv.status = "terminate" -> handleTerminationAdvisory(adv)
      [] adv.status = "blocked" -> handleBlockedAdvisory(adv, p, out)
      [] OTHER -> makeNormalDecision(p, out, match)

\* Whether Decider.next calls generateDecisionWithLLM.
callsBackend(p, adv) ==
    CASE adv.status = "terminate" -> FALSE
      [] adv.status = "blocked" -> FirstWithStatus(p, {"blocked"}) # 0
      [] OTHER -> findCurrentStep(p) # 0

\* Decider.next(plan, progress, actions, advisory): the decision returned.
next(p, adv, out, match) ==
    IF validateDecision(generatedDecision(p, adv, out, match))
    THEN generatedDecision(p, adv, out, match)
    ELSE createFallbackDecision("Generated decision failed validation")

-----------------------------------------------------------------------------
(* Specification of the decider: next is applied to every plan and advisory *)

\* Plans handed to Decider.next: up to MaxSteps steps of any status, without
\* dependencies or each step depending on the previous one.
DeciderPlansOf(n) ==
    { [task |-> "task",
       steps |-> [i \in 1..n |->
                    [id |-> StepId(i),
                     desc |-> "d" \o ToString(i),
                     status |-> st[i],
                     deps |-> IF chain /\ i > 1 THEN <<StepId(i - 1)>> ELSE <<>>]],
       updatedAt |-> Created] :
        st \in [1..n -> Statuses],
        chain \in BOOLEAN }

DeciderInit ==
    /\ InitEngine
    /\ \E n \in 0..MaxSteps : cand \in DeciderPlansOf(n)

\* One call of Decider.next on the plan.
callNext(adv, out, match) ==
    /\ ret.op = "none"
    /\ ret' = [op |-> "next",
               threw |-> FALSE,
               advisory |-> adv,
               outcome |-> out.kind,
               calledBackend |-> callsBackend(cand, adv),
               generated |-> generatedDecision(cand, adv, out, match),
               decision |-> next(cand, adv, out, match)]
    /\ UNCHANGED <<actionVars, plan, okFed, cand>>

DeciderNext ==
    \E adv \in Advisories, out \in DecisionOutcomes, match \in Matches :
        callNext(adv, out, match) /\ UNCHANGED agentVars

DeciderSpec == DeciderInit /\ [][DeciderNext]_vars

-----------------------------------------------------------------------------
(* Agent: values and functions *)

\* Bound on the actions one run performs (run ids randomUUID hands out).
MaxActions == 1

AgentRunIds == 1..MaxActions

\* Run ids for a run that performs one action more.
OverlapRunIds == 1..(MaxActions + 1)

\* The outer ceiling of waitForActionCompletion, in seconds.
WaitCeilingSec == 300

\* meta.timeoutSec of the registered actions (120 when the metadata gives none).
TimeoutSec(name) ==
    IF name = "beta" THEN 600 ELSE 120

\* meta.tags of the registered actions.
ActionTags(name) ==
    IF name = "alpha" THEN {"network"} ELSE {}

\* confirmPolicy of the default configuration.
RequireForTags == {"destructive", "write", "network"}

PolicyDefault == TRUE

\* needsConfirmation(action).
needsConfirmation(name) ==
    IF Registered(name) /\ ActionTags(name) \cap RequireForTags # {}
    THEN TRUE
    ELSE PolicyDefault

\* An EventEnvelope: its type and, of the payload, status and reason.
Event(type, status, reason) ==
    [type |-> type, status |-> status, reason |-> reason]

\* The events of initializeRun.
InitEvents ==
    <<Event("run_started", "", ""), Event("user_request", "", "")>>

\* The catch of orchestrate with the run_finished event left out.
FailureEventsNone ==
    <<>>

\* The events the catch of orchestrate emits.
FailureEvents ==
    <<Event("run_finished", "failed", "orchestration_error")>>

\* The run_finished event of handleTermination(runId, decision).
handleTermination(reason) ==
    Event("run_finished",
          IF reason = "goal_achieved" THEN "succeeded" ELSE "failed",
          IF reason = "" THEN "user_terminated" ELSE reason)

\* The run_finished event of handleAsk.
handleAsk ==
    Event("run_finished", "interrupted", "waiting_for_user_input")

\* Outcomes of the feedback handler for the model: none stored, it returns a
\* Feedback, it returns null, it throws.
HandlerOutcomes(hasHandler) ==
    IF hasHandler THEN {"returns", "null", "throws"} ELSE {"none"}

\* The Feedback collectFeedback records for a result status and a handler outcome.
collectFeedback(status, outcome, implicitSuccessOnOk) ==
    IF outcome = "returns"
    THEN [score |-> 5, signal |-> "success", submittedBy |-> "user"]
    ELSE IF status = "ok" /\ implicitSuccessOnOk
    THEN [score |-> 4, signal |-> "success", submittedBy |-> "system"]
    ELSE [score |-> 3, signal |-> "partial", submittedBy |-> "system"]

\* The events of an execute iteration from action_result on, with plan_updated
\* emitted after progress_evaluated.
CompletionEventsSwapped(status, adv, interactive) ==
    <<Event("action_result", status, "")>>
        \o (IF interactive THEN <<Event("feedback_received", "", "")>> ELSE <<>>)
        \o <<Event("progress_evaluated", adv.status, adv.reason),
             Event("plan_updated", "", "")>>
        \o (IF adv.status = "terminate"
            THEN <<handleTermination("Plan completed: " \o adv.reason)>>
            ELSE <<>>)

\* The events of an execute iteration from action_result on (handleExecute after
\* the wait, then executePlanLoop).
CompletionEvents(status, adv, interactive) ==
    <<Event("action_result", status, ""), Event("plan_updated", "", "")>>
        \o (IF interactive THEN <<Event("feedback_received", "", "")>> ELSE <<>>)
        \o <<Event("progress_evaluated", adv.status, adv.reason)>>
        \o (IF adv.status = "terminate"
            THEN <<handleTermination("Plan completed: " \o adv.reason)>>
            ELSE <<>>)

\* What the actions of a run print: a result with status ok or error.
AgentOutputs == {"json_ok", "json_error"}

\* Outcomes of the backend for the build of a run: an exception, a plan without
\* steps, or a chain of MaxSteps steps.
AgentBuildOutcomes ==
    { [kind |-> "throws", data |-> [task |-> "", steps |-> <<>>]] }
        \cup { [kind |-> "data",
                data |-> [task |-> "task",
                          steps |-> [i \in 1..n |->
                                       [id |-> StepId(i), desc |-> "d",
                                        deps |-> IF i > 1 THEN <<StepId(i - 1)>> ELSE <<>>]]]] :
                  n \in {0, MaxSteps} }

\* The decisions Decider.next can return for a plan and an advisory, over the
\* outcomes of the backend and of selectRelevantAction.
NextDecisions(p, adv) ==
    { next(p, adv, out, match) : out \in DecisionOutcomes, match \in Matches }

-----------------------------------------------------------------------------
(* Agent: operations *)

\* Agent.ask(text, files, options): initializeRun emits its events, orchestrate
\* is started and the handle returned. (The executionMode option is only copied
\* into the handle and the run_started payload; the loop reads
\* config.execution.executionMode. The feedbackHandler option is stored in the
\* agent: config.hasHandler.)
ask ==
    /\ agent.pc = "idle"
    /\ agent' = [agent EXCEPT !.pc = "orchestrate", !.handle = "returned"]
    /\ events' = events \o InitEvents
    /\ ret' = [op |-> "ask", threw |-> FALSE]
    /\ UNCHANGED <<actionVars, plan, okFed, cand, feedback, config, sideVars>>

\* The catch of orchestrate: the run ends with the failure events.
orchestrationFailed(emitted) ==
    /\ agent' = [agent EXCEPT !.pc = "done", !.end = "error"]
    /\ events' = events \o emitted \o FailureEvents

\* orchestrate up to the loop: screening of guides and knowledge (sel), build.
orchestrate(sel, outcome) ==
    /\ agent.pc = "orchestrate"
    /\ UNCHANGED <<actionVars, okFed, cand, ret, config, feedback, sideVars>>
    /\ IF sel = "throws"
       THEN /\ orchestrationFailed(<<>>)
            /\ UNCHANGED plan
       ELSE /\ plan' = buildPlan("req", outcome)
            /\ agent' = [agent EXCEPT !.pc = "loop"]
            /\ events' = events \o <<Event("plan_built", "", "")>>

\* One iteration of executePlanLoop up to its first wait: progress, screening of
\* actions (sel), the decision d of Decider.next, the decision event, and the
\* branch taken; for execute, handleExecute up to waitForActionCompletion.
iterate(sel, d, spawn) ==
    /\ agent.pc = "loop"
    /\ UNCHANGED <<config, feedback, sideVars>>
    /\ LET decided == <<Event("decision", d.type, "")>>
           free == { r \in DOMAIN runName : runName[r] = "" }
       IN  IF sel = "throws"
           THEN /\ orchestrationFailed(<<>>)
                /\ UNCHANGED <<actionVars, plan, okFed, cand, ret>>
           ELSE IF d.type = "terminate"
           THEN /\ agent' = [agent EXCEPT !.pc = "done", !.end = "terminate"]
                /\ events' = events \o decided \o <<handleTermination(d.reason)>>
                /\ UNCHANGED <<actionVars, plan, okFed, cand, ret>>
           ELSE IF d.type = "ask"
           THEN /\ agent' = [agent EXCEPT !.pc = "done", !.end = "ask"]
                /\ events' = events \o decided \o <<handleAsk>>
                /\ UNCHANGED <<actionVars, plan, okFed, cand, ret>>
           ELSE IF d.type = "wait"
           THEN /\ agent' = [agent EXCEPT !.pc = "done", !.end = "wait", !.waitTimer = TRUE]
                /\ events' = events \o decided
                /\ UNCHANGED <<actionVars, plan, okFed, cand, ret>>
           ELSE IF ~Registered(d.action[1].name)
           THEN /\ perform(d.action[1].name, d.action[1].args, 1, spawn)
                /\ orchestrationFailed(decided)
           ELSE /\ free # {}
                /\ perform(d.action[1].name, d.action[1].args, Min(free), spawn)
                /\ agent' = [agent EXCEPT !.pc = "waiting", !.actionRunId = Min(free)]
                /\ events' = events \o decided \o <<Event("action_started", "", "")>>

\* The rest of an execute iteration once waitForActionCompletion has resolved
\* with a result of the given status: action_result, updateFromAction,
\* plan_updated, collectFeedback, progress_evaluated, termination.
complete(status, outcome) ==
    LET interactive == config.executionMode = "interactive"
        adv == [status |-> Advisory(UpdatedPlan(plan, status)).status,
                reason |-> Advisory(UpdatedPlan(plan, status)).reason]
    IN  /\ plan' = UpdatedPlan(plan, status)
        /\ feedback' = IF interactive
                       THEN [feedback EXCEPT ![agent.actionRunId] =
                               Append(@, collectFeedback(status, outcome,
                                                         config.implicitSuccessOnOk))]
                       ELSE feedback
        /\ events' = events \o CompletionEvents(status, adv, interactive)
        /\ agent' = [agent EXCEPT !.pc = IF adv.status = "terminate" THEN "done" ELSE "loop",
                                  !.end = IF adv.status = "terminate" THEN "advisory" ELSE "",
                                  !.advisory = adv,
                                  !.handler = IF interactive THEN outcome ELSE "skipped"]
        /\ UNCHANGED <<actionVars, okFed, cand, ret, config, sideVars>>

\* waitForActionCompletion: a poll finds the stored result.
pollResult(outcome) ==
    /\ agent.pc = "waiting"
    /\ getResult(agent.actionRunId) # NoResult
    /\ complete(getResult(agent.actionRunId).status, outcome)

\* waitForActionCompletion: the ceiling elapses with no result stored. It comes
\* before the action's own timer only when timeoutSec is above the ceiling.
waitCeiling(outcome) ==
    /\ agent.pc = "waiting"
    /\ getResult(agent.actionRunId) = NoResult
    /\ \/ TimeoutSec(runName[agent.actionRunId]) > WaitCeilingSec
       \/ agent.actionRunId \notin timers
    /\ complete("timeout", outcome)

\* The timer of handleWait fires.
handleWaitTimer ==
    /\ agent.waitTimer
    /\ agent' = [agent EXCEPT !.waitTimer = FALSE]
    /\ events' = events \o <<Event("run_summary", "running", "")>>
    /\ UNCHANGED <<actionVars, plan, okFed, cand, ret, config, feedback, sideVars>>

-----------------------------------------------------------------------------
(* Specification of one run of the agent over the action engine *)

\* The configurations of the agent: default, with either execution mode, with
\* or without implicitSuccessOnOk and a stored feedback handler.
AgentConfigs ==
    [executionMode : {"interactive", "auto"},
     implicitSuccessOnOk : BOOLEAN,
     hasHandler : BOOLEAN]

\* The state before ask, for an engine that can hand out the run ids `ids`.
AgentInitOver(ids, configs) ==
    /\ runName = [r \in ids |-> ""]
    /\ runningActions = {}
    /\ proc = [r \in ids |-> NoProcess]
    /\ completedActions = [r \in ids |-> NoResult]
    /\ timers = {}
    /\ graceTimers = {}
    /\ timeoutKilled = {}
    /\ plan = NoPlan
    /\ okFed = -1
    /\ cand = NoPlan
    /\ ret = NoRet
    /\ agent = NoAgent
    /\ config \in configs
    /\ events = <<>>
    /\ feedback = [r \in ids |-> <<>>]
    /\ feedbackHandler = 0
    /\ runs = <<>>
    /\ llm = NoCall
    /\ registry = ActionOrder
    /\ loader = 0
    /\ stored = <<>>

AgentInit == AgentInitOver(AgentRunIds, AgentConfigs)

\* The steps of a run after ask has returned, and the steps of the engine.
AgentSteps ==
    \/ \E sel \in {"ok", "throws"}, outcome \in AgentBuildOutcomes : orchestrate(sel, outcome)
    \/ /\ agent.pc = "loop"
       /\ \E sel \in {"ok", "throws"}, d \in NextDecisions(plan, agent.advisory),
             spawn \in {"ok", "throws"} : iterate(sel, d, spawn)
    \/ \E outcome \in HandlerOutcomes(config.hasHandler) : pollResult(outcome)
    \/ \E outcome \in HandlerOutcomes(config.hasHandler) : waitCeiling(outcome)
    \/ handleWaitTimer
    \/ \E r \in DOMAIN runName : scheduleTimeout(r) /\ UNCHANGED agentVars
    \/ \E r \in DOMAIN runName, out \in AgentOutputs :
          handleProcessCompletion(r, out) /\ UNCHANGED agentVars
    \/ \E r \in DOMAIN runName, closes \in BOOLEAN :
          processError(r, closes) /\ UNCHANGED agentVars
    \/ \E r \in DOMAIN runName, how \in {"code", "signal"} :
          processExit(r, how) /\ UNCHANGED agentVars

AgentNext ==
    \/ ask
    \/ AgentSteps

AgentSpec == AgentInit /\ [][AgentNext]_vars

\* A run in auto mode over an engine with one more run id.
OverlapInit ==
    AgentInitOver(OverlapRunIds,
                  {[executionMode |-> "auto", implicitSuccessOnOk |-> TRUE,
                    hasHandler |-> FALSE]})

OverlapSpec == OverlapInit /\ [][AgentNext]_vars

-----------------------------------------------------------------------------
(* Claims about the action engine (specification Spec) *)

\* C1: at-most-once result. Once getResult(r) returns a terminal result, every
\* later getResult(r) returns that same result: no later event (close, error,
\* timer, cancelAction) overwrites it.
C1_AtMostOnce ==
    [][\A r \in RunIds : getResult(r) # NoResult => getResult(r)' = getResult(r)]_vars

\* C2: when the timeout timer found the process still running, then once the
\* close event of the killed process has been handled the stored result has
\* status timeout and the id is not in the running table.
C2_TimeoutStored ==
    \A r \in timeoutKilled :
        proc[r].state = "closed" =>
            /\ completedActions[r].status = "timeout"
            /\ r \notin runningActions

\* C3: perform of a name that is not registered does not throw; it returns a
\* run id whose stored result has status error, and spawns nothing.
C3_MissingActionNoThrow ==
    [][\A name \in Names, args \in ArgSets, r \in RunIds, spawn \in {"ok", "throws"} :
          (~Registered(name) /\ perform(name, args, r, spawn)) =>
              /\ ~ret'.threw
              /\ completedActions'[ret'.runId].status = "error"
              /\ proc' = proc
              /\ runningActions' = runningActions]_vars

\* C4: perform of a registered action with a required argument absent stores at
\* once an error result under the returned id, spawns no process, arms no timer
\* and never puts the id in the running table; a call with every required
\* argument present never gets this error, whatever extra arguments it has.
C4_MissingRequiredArg ==
    /\ [][\A r \in RunIds :
            \* r is the run id allocated in this step
            (runName[r] = "" /\ runName'[r] # "") =>
                \A name \in Names, args \in ArgSets, spawn \in {"ok", "throws"} :
                    (Registered(name) /\ perform(name, args, r, spawn)) =>
                        IF RequiredArgs(name) \subseteq args
                        THEN completedActions'[r].error # "Required argument missing"
                        ELSE /\ ret' = [op |-> "perform", threw |-> FALSE, runId |-> r]
                             /\ completedActions'[r].status = "error"
                             /\ completedActions'[r].error = "Required argument missing"
                             /\ proc'[r].state = "none"
                             /\ r \notin runningActions'
                             /\ r \notin timers']_vars
    /\ [](\A r \in RunIds :
            completedActions[r].error = "Required argument missing" =>
                /\ completedActions[r].status = "error"
                /\ proc[r].state = "none"
                /\ r \notin runningActions
                /\ r \notin timers)

C4_Witness ==
    /\ ret.op = "perform"
    /\ ~ret.threw
    /\ runName[ret.runId] = "alpha"
    /\ completedActions[ret.runId].error = "Required argument missing"

-----------------------------------------------------------------------------
(* Claims about the planner (specification PlanSpec) *)

IsChain3(p) ==
    /\ Len(p.steps) = 3
    /\ \A i \in 1..3 : p.steps[i].id = StepId(i)
    /\ p.steps[1].deps = <<>>
    /\ p.steps[2].deps = <<StepId(1)>>
    /\ p.steps[3].deps = <<StepId(2)>>

\* C5: for the chain s1 -> s2 -> s3 as built, fed three ok results in a row, the
\* advisory is {continue, exhausted} after the first and the second result and
\* {terminate, goal_achieved} after the third.
C5_ChainThreeOk ==
    (IsChain3(plan) /\ ret.op = "updateFromAction" /\ okFed \in 1..3) =>
        IF okFed = 3
        THEN ret.status = "terminate" /\ ret.reason = "goal_achieved"
        ELSE ret.status = "continue" /\ ret.reason = "exhausted"

\* C6: for a single-step plan whose step is the one being executed (the step a
\* decision is made for), updateFromAction with an error or timeout result
\* returns {blocked, error} and leaves the step blocked.
C6_SingleStepBlocked ==
    [][\A res \in {"error", "timeout"} :
          (Len(plan.steps) = 1 /\ findCurrentStep(plan) = 1 /\ updateFromAction(res)) =>
              /\ ret'.status = "blocked"
              /\ ret'.reason = "error"
              /\ plan'.steps[1].status = "blocked"]_vars

\* C7: the advisory of updateFromAction is {terminate, goal_achieved} iff every
\* step of the updated plan is done; otherwise {blocked, error} iff some step is
\* blocked; otherwise {continue, exhausted}; no other pair is returned.
C7_AdvisoryPrecedence ==
    ret.op = "updateFromAction" =>
        LET everyDone == \A i \in 1..Len(plan.steps) : plan.steps[i].status = "done"
            someBlocked == \E i \in 1..Len(plan.steps) : plan.steps[i].status = "blocked"
        IN  /\ <<ret.status, ret.reason>> \in
                  {<<"terminate", "goal_achieved">>, <<"blocked", "error">>,
                   <<"continue", "exhausted">>}
            /\ (ret.status = "terminate") <=> everyDone
            /\ (ret.status = "blocked") <=> (~everyDone /\ someBlocked)
            /\ (ret.status = "continue") <=> (~everyDone /\ ~someBlocked)

C7_Witness ==
    /\ ret.op = "updateFromAction"
    /\ ret.status = "blocked"
    /\ Len(plan.steps) >= 2
    /\ \E i \in 1..Len(plan.steps) : plan.steps[i].status = "done"
    /\ \E i \in 1..Len(plan.steps) : plan.steps[i].status = "blocked"

\* C8: updateFromAction is a pure function: a call has no effect other than its
\* return value, so the plan object passed in is the same after the call.
C8_PlanNotChanged ==
    [][\A res \in ResultStatuses : updateFromAction(res) => plan' = plan]_vars

\* C9: progress reports the running step if there is one, otherwise the first
\* pending step whose deps are all done; a pending step with an unfinished
\* dependency is never reported, and "completed" with an empty step id is
\* reported only when there is no such step and every step is done.
C9_ProgressCurrent ==
    ret.op = "progress" =>
        LET n == Len(plan.steps)
            running == { i \in 1..n : plan.steps[i].status = "running" }
            depsDone(i) ==
                \A k \in 1..Len(plan.steps[i].deps) :
                    \E j \in 1..n : /\ plan.steps[j].id = plan.steps[i].deps[k]
                                    /\ plan.steps[j].status = "done"
            ready == { i \in 1..n : plan.steps[i].status = "pending" /\ depsDone(i) }
        IN  /\ running # {} =>
                   \E i \in running : ret.stepId = plan.steps[i].id /\ ret.status = "running"
            /\ (running = {} /\ ready # {}) =>
                   ret.stepId = plan.steps[Min(ready)].id /\ ret.status = "pending"
            /\ ret.stepId # EmptyId =>
                   \E i \in running \cup ready : ret.stepId = plan.steps[i].id
            /\ ret.status = "completed" =>
                   /\ ret.stepId = EmptyId
                   /\ running = {} /\ ready = {}
                   /\ \A i \in 1..n : plan.steps[i].status = "done"

-----------------------------------------------------------------------------
(* Claims about validatePlan (specification ValidateSpec) *)

UniqueIds(p) ==
    \A i, j \in 1..Len(p.steps) : i # j => p.steps[i].id # p.steps[j].id

DepsResolve(p) ==
    \A i \in 1..Len(p.steps) :
        \A k \in 1..Len(p.steps[i].deps) :
            \E j \in 1..Len(p.steps) : p.steps[j].id = p.steps[i].deps[k]

\* C10 as stated: validatePlan(plan) is true iff the step ids are pairwise unique
\* and every dependency id is the id of a step of the plan, whatever the task
\* text, the number of steps or cycles.
C10_ValidIffWellFormed ==
    ret.op = "validatePlan" => (ret.valid <=> (UniqueIds(cand) /\ DepsResolve(cand)))

\* C10 amended: validatePlan(plan) is true iff the task text is not empty, the
\* step ids are pairwise unique and every dependency id is the id of a step of
\* the plan; the number of steps and cycles do not affect the verdict.
C10_ValidIffTaskAndWellFormed ==
    ret.op = "validatePlan" =>
        (ret.valid <=> (cand.task # "" /\ UniqueIds(cand) /\ DepsResolve(cand)))

\* A cyclic plan (s1 depends on s2, s2 on s1) that validatePlan accepts.
C10_Witness ==
    /\ ret.op = "validatePlan"
    /\ ret.valid
    /\ Len(cand.steps) = 2
    /\ cand.steps[1].deps = <<cand.steps[2].id>>
    /\ cand.steps[2].deps = <<cand.steps[1].id>>

-----------------------------------------------------------------------------
(* Claims about Planner.build (specification PlanSpec) *)

\* The single-step fallback plan for a request: one pending step without deps
\* whose description carries the request and a diagnostic.
IsFallbackPlan(p, request) ==
    /\ p.task = request
    /\ Len(p.steps) = 1
    /\ p.steps[1].id = FallbackId
    /\ p.steps[1].status = "pending"
    /\ p.steps[1].deps = <<>>
    /\ p.steps[1].desc[2] = request
    /\ p.steps[1].desc[3] # ""

\* C11: Planner.build never throws, and for every backend outcome the plan it
\* returns either passed validatePlan or is the single-step fallback plan
\* carrying the request and the diagnostic; the returned plan has pairwise
\* unique step ids and only dependencies on its own steps.
C11_BuildWellFormed ==
    ret.op = "build" =>
        /\ ~ret.threw
        /\ validatePlan(plan) \/ IsFallbackPlan(plan, ret.request)
        /\ UniqueIds(plan)
        /\ DepsResolve(plan)

\* build has replaced a plan with a dangling or duplicate id by the fallback.
C11_Witness ==
    /\ ret.op = "build"
    /\ IsFallbackPlan(plan, ret.request)
    /\ plan.steps[1].desc[3] = "Generated plan failed validation"

-----------------------------------------------------------------------------
(* Claims about the decider (specification DeciderSpec) *)

\* C12: Decider.next called with an advisory of status terminate returns a
\* decision of type terminate whose reason is the advisory's reason, whatever
\* the plan and the candidate actions, and without calling the backend.
C12_TerminateAdvisory ==
    (ret.op = "next" /\ ret.advisory.status = "terminate") =>
        /\ ~ret.threw
        /\ ret.decision.type = "terminate"
        /\ ret.decision.reason = ret.advisory.reason
        /\ ret.decision.action = <<>>
        /\ ~ret.calledBackend

\* A terminate advisory honoured on a plan that still has a step to execute.
C12_Witness ==
    /\ ret.op = "next"
    /\ ret.advisory.status = "terminate"
    /\ ret.decision.type = "terminate"
    /\ findCurrentStep(cand) # 0

\* C13: for every plan, advisory and backend outcome Decider.next returns,
\* without throwing, one decision whose type is execute, ask, wait or terminate
\* and whose action is present iff the type is execute; when the decision it
\* generated is invalid, the result is {ask, hint continue} with the failure
\* description as reason.
C13_AlwaysValidDecision ==
    ret.op = "next" =>
        /\ ~ret.threw
        /\ ret.decision.type \in {"execute", "ask", "wait", "terminate"}
        /\ (ret.decision.action # <<>>) <=> (ret.decision.type = "execute")
        /\ LET g == ret.generated
               invalid == \/ g.type \notin {"execute", "ask", "wait", "terminate"}
                          \/ (g.action # <<>>) # (g.type = "execute")
           IN  IF invalid
               THEN /\ ret.decision.type = "ask"
                    /\ ret.decision.hint = "continue"
                    /\ ret.decision.reason =
                           "Decision making failed (Generated decision failed validation), please provide guidance"
               ELSE ret.decision = g

\* The backend answered "execute" without an action and next fell back to ask.
C13_Witness ==
    /\ ret.op = "next"
    /\ ret.generated.type = "execute"
    /\ ret.generated.action = <<>>
    /\ ret.decision.type = "ask"
    /\ ret.decision.hint = "continue"

-----------------------------------------------------------------------------
(* Claims about the agent (specifications AgentSpec and OverlapSpec) *)

LastEvent == events[Len(events)]

\* C14: a run that ends because its plan is complete is reported as succeeded:
\* when the loop ends on an advisory {terminate, goal_achieved}, or on a
\* terminate decision taken with all steps done, the run_finished event has
\* status succeeded; it has status failed only when the run did not end with the
\* goal achieved.
C14_CompleteSucceeds ==
    (agent.pc = "done" /\ agent.end \in {"terminate", "advisory"}) =>
        /\ LastEvent.type = "run_finished"
        /\ LastEvent.status \in {"succeeded", "failed"}
        /\ (agent.end = "advisory" /\ agent.advisory.reason = "goal_achieved") =>
               LastEvent.status = "succeeded"
        /\ (agent.end = "terminate" /\ AllStepsDone(plan)) =>
               LastEvent.status = "succeeded"

\* C15: when the decision of an iteration is ask or wait, the run ends with a
\* run_finished event (status interrupted for ask, running for wait) that is the
\* last event of the run, in every state from then on.
C15_AskWaitFinish ==
    agent.end \in {"ask", "wait"} =>
        /\ LastEvent.type = "run_finished"
        /\ LastEvent.status = IF agent.end = "ask" THEN "interrupted" ELSE "running"
        /\ Cardinality({ i \in 1..Len(events) : events[i].type = "run_finished" }) = 1

\* The iteration an event belongs to: the number of decision events up to it.
IterOf(i) ==
    Cardinality({ j \in 1..i : events[j].type = "decision" })

\* The positions of the events of a type in iteration n.
PosIn(n, type) ==
    { i \in 1..Len(events) : events[i].type = type /\ IterOf(i) = n }

\* Every event of type b in iteration n comes after an event of type a of the
\* same iteration.
Precedes(n, a, b) ==
    \A j \in PosIn(n, b) : \E i \in PosIn(n, a) : i < j

\* C16: run_started is the first event and user_request the second; in every
\* execute iteration decision comes before action_started, action_started
\* before action_result, action_result before plan_updated, plan_updated before
\* progress_evaluated, each once, and the decision of the next iteration comes
\* only after progress_evaluated.
C16_EventOrder ==
    /\ Len(events) >= 1 => events[1].type = "run_started"
    /\ Len(events) >= 2 => events[2].type = "user_request"
    /\ \A i \in 1..Len(events) :
          events[i].type \in {"run_started", "user_request"} => i <= 2
    /\ \A n \in 0..Len(events) :
          /\ PosIn(0, "action_started") = {}
          /\ Precedes(n, "decision", "action_started")
          /\ Precedes(n, "action_started", "action_result")
          /\ Precedes(n, "action_result", "plan_updated")
          /\ Precedes(n, "plan_updated", "progress_evaluated")
          /\ \A t \in {"decision", "action_started", "action_result", "plan_updated",
                       "progress_evaluated"} : Cardinality(PosIn(n, t)) <= 1
          /\ (PosIn(n, "action_started") # {} /\ PosIn(n + 1, "decision") # {}) =>
                 PosIn(n, "progress_evaluated") # {}

\* An execute iteration has run to its end and the next decision was emitted.
C16_Witness ==
    /\ PosIn(1, "progress_evaluated") # {}
    /\ PosIn(2, "decision") # {}

\* C17: a failure inside the orchestration after run_started ends the run with
\* exactly one run_finished event, of status failed and reason
\* orchestration_error, which is the last event; the caller of ask keeps the
\* handle it was returned.
C17_FailureCaught ==
    agent.end = "error" =>
        /\ agent.pc = "done"
        /\ agent.handle = "returned"
        /\ events[1].type = "run_started"
        /\ LastEvent = Event("run_finished", "failed", "orchestration_error")
        /\ Cardinality({ i \in 1..Len(events) : events[i].type = "run_finished" }) = 1

\* The run failed because perform threw on the action the decision named.
C17_Witness ==
    /\ agent.end = "error"
    /\ ret.op = "perform"
    /\ ret.threw
    /\ events[Len(events) - 1].type = "decision"

\* C18: the loop never calls perform while a process started earlier by the run
\* is still in the running-process table.
C18_OneActionInFlight ==
    [][\A r \in DOMAIN runName :
          (runName[r] = "" /\ runName'[r] # "") => runningActions = {}]_vars

\* C19: every execute iteration, in interactive and in auto mode, appends
\* exactly one feedback entry under the action's run id (the handler's feedback
\* if it returns one, else implicit success with score 4 for an ok result when
\* implicitSuccessOnOk is set, else partial with score 3) and emits exactly one
\* feedback_received event before progress_evaluated.
C19_OneFeedbackPerIteration ==
    [][(agent.pc = "waiting" /\ agent'.pc # "waiting") =>
          LET id == agent.actionRunId
              status == events'[Len(events) + 1].status
              added == SubSeq(events', Len(events) + 1, Len(events'))
              received == { i \in 1..Len(added) : added[i].type = "feedback_received" }
              evaluated == { i \in 1..Len(added) : added[i].type = "progress_evaluated" }
          IN  /\ Len(feedback'[id]) = Len(feedback[id]) + 1
              /\ LET entry == feedback'[id][Len(feedback'[id])]
                 IN  IF agent'.handler = "returns"
                     THEN entry.submittedBy = "user"
                     ELSE entry = IF status = "ok" /\ config.implicitSuccessOnOk
                                  THEN [score |-> 4, signal |-> "success",
                                        submittedBy |-> "system"]
                                  ELSE [score |-> 3, signal |-> "partial",
                                        submittedBy |-> "system"]
              /\ Cardinality(received) = 1
              /\ \A i \in received : \A j \in evaluated : i < j]_vars

\* C20: in auto mode an action with a tag listed in requireForTags is never
\* passed to Action.perform without a confirmation; the agent has no operation
\* that obtains one, so no such perform may happen.
C20_TagsRespected ==
    [][\A r \in DOMAIN runName :
          (config.executionMode = "auto" /\ runName[r] = "" /\ runName'[r] # "") =>
              ActionTags(runName'[r]) \cap RequireForTags = {}]_vars

-----------------------------------------------------------------------------
(* Several runs on one Agent: the feedbackHandler field they share *)

MaxAsks == 2

MaxIterations == 2

AskIds == 1..MaxAsks

\* The run id Action.perform hands out for iteration n of run i.
ActionIdOf(i, n) ==
    (i - 1) * MaxIterations + n

\* Agent.ask of run i, with or without the feedbackHandler option: a handler
\* is stored in the agent, replacing the one stored before; without the option
\* the field is left as it is. The handler supplied by run i is named i.
askRun(i, withHandler) ==
    /\ runs[i].pc = "idle"
    /\ feedbackHandler' = IF withHandler THEN i ELSE feedbackHandler
    /\ runs' = [runs EXCEPT ![i].pc = "loop", ![i].handler = withHandler]
    /\ UNCHANGED <<actionVars, planVars, cand, ret, agent, config, events, feedback, llm,
                   registryVars, stored>>

\* An execute iteration of run i up to the action result.
executeRun(i) ==
    /\ runs[i].pc = "loop"
    /\ runs[i].iterations < MaxIterations
    /\ runs' = [runs EXCEPT ![i].pc = "executed", ![i].iterations = @ + 1]
    /\ UNCHANGED <<actionVars, planVars, cand, ret, agent, config, events, feedback,
                   feedbackHandler, llm, registryVars, stored>>

\* The rest of the iteration: collectFeedback on the result (interactive mode
\* only) calls the handler stored in the agent, if any, and adds the feedback
\* under the action's run id.
collectFeedbackRun(i, status, outcome) ==
    /\ runs[i].pc = "executed"
    /\ LET interactive == config.executionMode = "interactive"
           id == ActionIdOf(i, runs[i].iterations)
       IN  /\ runs' = [runs EXCEPT ![i].pc = "loop",
                                   ![i].invoked = IF interactive /\ feedbackHandler # 0
                                                  THEN @ \cup {feedbackHandler} ELSE @]
           /\ feedback' = IF interactive
                          THEN [feedback EXCEPT ![id] =
                                  Append(@, collectFeedback(status, outcome,
                                                            config.implicitSuccessOnOk))]
                          ELSE feedback
    /\ UNCHANGED <<actionVars, planVars, cand, ret, agent, config, events,
                   feedbackHandler, llm, registryVars, stored>>

\* The loop of run i ends (terminate, ask or wait decision).
finishRun(i) ==
    /\ runs[i].pc = "loop"
    /\ runs' = [runs EXCEPT ![i].pc = "done"]
    /\ UNCHANGED <<actionVars, planVars, cand, ret, agent, config, events, feedback,
                   feedbackHandler, llm, registryVars, stored>>

\* One agent, no ask called yet; the engine is not exercised here.
ConcurrentInit ==
    /\ runName = [r \in RunIds |-> ""]
    /\ runningActions = {}
    /\ proc = [r \in RunIds |-> NoProcess]
    /\ completedActions = [r \in RunIds |-> NoResult]
    /\ timers = {}
    /\ graceTimers = {}
    /\ timeoutKilled = {}
    /\ plan = NoPlan
    /\ okFed = -1
    /\ cand = NoPlan
    /\ ret = NoRet
    /\ agent = NoAgent
    /\ config \in {c \in AgentConfigs : c.implicitSuccessOnOk /\ ~c.hasHandler}
    /\ events = <<>>
    /\ feedback = [r \in 1..(MaxAsks * MaxIterations) |-> <<>>]
    /\ feedbackHandler = 0
    /\ runs = [i \in AskIds |-> NoRun]
    /\ llm = NoCall
    /\ registry = ActionOrder
    /\ loader = 0
    /\ stored = <<>>

ConcurrentNext ==
    \/ \E i \in AskIds, withHandler \in BOOLEAN : askRun(i, withHandler)
    \/ \E i \in AskIds : executeRun(i)
    \/ \E i \in AskIds, status \in {"ok", "error"},
          outcome \in HandlerOutcomes(feedbackHandler # 0) :
          collectFeedbackRun(i, status, outcome)
    \/ \E i \in AskIds : finishRun(i)

ConcurrentSpec == ConcurrentInit /\ [][ConcurrentNext]_vars

\* C22: the handler supplied to one ask call is invoked only for action
\* results of that run: for the results of run i no handler other than the one
\* run i supplied is ever invoked, and none at all when run i supplied none.
C22_HandlersIndependent ==
    \A i \in DOMAIN runs :
        runs[i].invoked \subseteq (IF runs[i].handler THEN {i} ELSE {})

-----------------------------------------------------------------------------
(* The feedback ledger and the eviction of results (class Action) *)

MaxFeedback == 3

\* The run ids perform can hand out here, in the order localeCompare gives them.
LedgerIds == 1..(MaxRuns + 1)

\* A run id that perform never returned.
UnknownId == 0

\* Two Feedback objects.
Feedbacks ==
    {[score |-> 5, signal |-> "success", submittedBy |-> "user"],
     [score |-> 1, signal |-> "fail", submittedBy |-> "user"]}

RECURSIVE TotalFeedback(_)
\* The number of entries held by the feedback lists of the ids in S.
TotalFeedback(S) ==
    IF S = {} THEN 0
    ELSE LET r == CHOOSE x \in S : TRUE
         IN  Len(feedback[r]) + TotalFeedback(S \ {r})

\* A variant of addFeedback that puts the entry in front of the list.
addFeedbackInFront(r, f) ==
    /\ feedback' = [feedback EXCEPT ![r] = <<f>> \o @]
    /\ ret' = [op |-> "addFeedback"]
    /\ UNCHANGED <<actionVars, planVars, cand, agent, config, events, sideVars>>

\* addFeedback(runId, feedback): the list of the id is created when absent and
\* the entry pushed at its end. No check of the id is made.
addFeedback(r, f) ==
    /\ feedback' = [feedback EXCEPT ![r] = Append(@, f)]
    /\ ret' = [op |-> "addFeedback"]
    /\ UNCHANGED <<actionVars, planVars, cand, agent, config, events, sideVars>>

\* getFeedback(runId): the list of the id, or the empty list when it has none.
getFeedback(r) ==
    feedback[r]

\* The run ids that have an entry in completedActions.
Completed ==
    { r \in DOMAIN completedActions : completedActions[r] # NoResult }

\* The ids cleanupCompletedActions removes: the first size - maxKeep entries of
\* the ledger sorted by run id.
ToRemove(maxKeep) ==
    { r \in Completed :
        Cardinality({ q \in Completed : q < r }) < Cardinality(Completed) - maxKeep }

\* A variant of cleanupCompletedActions that leaves the feedback of the evicted
\* ids in place.
cleanupKeepingFeedback(maxKeep) ==
    /\ ret' = [op |-> "cleanupCompletedActions"]
    /\ UNCHANGED <<runName, runningActions, proc, timers, graceTimers, timeoutKilled,
                   planVars, cand, agent, config, events, sideVars, feedback>>
    /\ completedActions' =
           IF Cardinality(Completed) <= maxKeep THEN completedActions
           ELSE [r \in DOMAIN completedActions |->
                    IF r \in ToRemove(maxKeep) THEN NoResult ELSE completedActions[r]]

\* cleanupCompletedActions(maxKeep).
cleanupCompletedActions(maxKeep) ==
    /\ ret' = [op |-> "cleanupCompletedActions"]
    /\ UNCHANGED <<runName, runningActions, proc, timers, graceTimers, timeoutKilled,
                   planVars, cand, agent, config, events, sideVars>>
    /\ IF Cardinality(Completed) <= maxKeep
       THEN UNCHANGED <<completedActions, feedback>>
       ELSE /\ completedActions' =
                  [r \in DOMAIN completedActions |->
                      IF r \in ToRemove(maxKeep) THEN NoResult ELSE completedActions[r]]
            /\ feedback' =
                  [r \in DOMAIN feedback |->
                      IF r \in ToRemove(maxKeep) THEN <<>> ELSE feedback[r]]

\* An engine that can hand out the ids of LedgerIds, with an empty ledger.
LedgerInit ==
    /\ runName = [r \in LedgerIds |-> ""]
    /\ runningActions = {}
    /\ proc = [r \in LedgerIds |-> NoProcess]
    /\ completedActions = [r \in LedgerIds |-> NoResult]
    /\ timers = {}
    /\ graceTimers = {}
    /\ timeoutKilled = {}
    /\ plan = NoPlan
    /\ okFed = -1
    /\ cand = NoPlan
    /\ ret = NoRet
    /\ agent = NoAgent
    /\ config = DefaultConfig
    /\ events = <<>>
    /\ feedback = [r \in LedgerIds \cup {UnknownId} |-> <<>>]
    /\ feedbackHandler = 0
    /\ runs = <<>>
    /\ llm = NoCall
    /\ registry = ActionOrder
    /\ loader = 0
    /\ stored = <<>>

\* Actions run to their result, feedback is added under known and unknown ids,
\* and the ledger is cleaned up.
LedgerNext ==
    \/ \E r \in LedgerIds : perform("beta", {}, r, "ok") /\ UNCHANGED agentVars
    \/ \E r \in LedgerIds : processExit(r, "code") /\ UNCHANGED agentVars
    \/ \E r \in LedgerIds : handleProcessCompletion(r, "json_ok") /\ UNCHANGED agentVars
    \/ /\ TotalFeedback(DOMAIN feedback) < MaxFeedback
       /\ \E r \in DOMAIN feedback, f \in Feedbacks :
             /\ IF r = UnknownId THEN TRUE ELSE runName[r] # ""
             /\ addFeedback(r, f)
    \/ \E maxKeep \in 0..Cardinality(LedgerIds) : cleanupCompletedActions(maxKeep)

LedgerSpec == LedgerInit /\ [][LedgerNext]_vars

\* C23: getFeedback(id) returns exactly the entries added under the id, each
\* once, in insertion order: an id has no feedback at first; addFeedback(id, f)
\* puts f at the end of the list of id and changes the list of no other id,
\* whether or not id is in the running table or in the result ledger; and no
\* other step except an eviction changes any list.
C23_FeedbackLedger ==
    /\ \A r \in DOMAIN feedback : getFeedback(r) = <<>>
    /\ [][
          /\ \A r \in DOMAIN feedback, f \in Feedbacks :
                addFeedback(r, f) =>
                    /\ getFeedback(r)' = Append(getFeedback(r), f)
                    /\ \A q \in DOMAIN feedback \ {r} : getFeedback(q)' = getFeedback(q)
          /\ \A r \in DOMAIN feedback :
                getFeedback(r)' # getFeedback(r) =>
                    \/ \E f \in Feedbacks : getFeedback(r)' = Append(getFeedback(r), f)
                    \/ /\ r \in Completed
                       /\ completedActions'[r] = NoResult
                       /\ getFeedback(r)' = <<>>
       ]_vars

\* Two different entries were added under the unknown id, in this order, and
\* one under an id that is in the running table.
C23_Witness ==
    /\ Len(getFeedback(UnknownId)) = 2
    /\ getFeedback(UnknownId)[1].score = 5
    /\ getFeedback(UnknownId)[2].score = 1
    /\ \E r \in runningActions : Len(getFeedback(r)) = 1

\* C24: a call of cleanupCompletedActions(maxKeep), maxKeep >= 0, on a ledger
\* of more than maxKeep results leaves exactly maxKeep results; every evicted
\* run id has no feedback afterwards, and the feedback of every other id is
\* unchanged.
C24_CleanupEvicts ==
    [][\A maxKeep \in 0..Cardinality(LedgerIds) :
          (Cardinality(Completed) > maxKeep /\ cleanupCompletedActions(maxKeep)) =>
              /\ Cardinality(Completed') = maxKeep
              /\ Completed' \subseteq Completed
              /\ \A r \in Completed \ Completed' : getFeedback(r)' = <<>>
              /\ \A r \in DOMAIN feedback \ (Completed \ Completed') :
                    getFeedback(r)' = getFeedback(r)
              /\ \A r \in Completed' : completedActions'[r] = completedActions[r]]_vars

\* cleanupCompletedActions has evicted the result of a run and kept that of
\* another, whose feedback is still there.
C24_Witness ==
    /\ ret.op = "cleanupCompletedActions"
    /\ \E r \in LedgerIds :
          /\ proc[r].state = "closed"
          /\ completedActions[r] = NoResult
          /\ getFeedback(r) = <<>>
    /\ \E r \in Completed : getFeedback(r) # <<>>

-----------------------------------------------------------------------------
(* Claims about cancelAction (specification Spec) *)

\* What cancelAction does on an id it cancels, and on an id it leaves alone.
Cancels(r) ==
    /\ ret'.result = TRUE
    /\ completedActions'[r].status = "error"
    /\ completedActions'[r].error = "Action was cancelled"
    /\ r \notin runningActions'

CancelIsNoOp ==
    /\ ret'.result = FALSE
    /\ UNCHANGED <<runningActions, completedActions, feedback, proc, graceTimers,
                   timers, runName>>

\* C25: cancelAction on an id that is not active (not in the running table:
\* unknown, completed, timed out or cancelled) returns false and changes neither
\* the running table, the result ledger, the feedback ledger nor any process;
\* on an id in the running table it returns true, stores an error result with
\* reason cancelled and removes the id from the running table.
C25_CancelActiveOrNoOp ==
    [][\A r \in RunIds :
          cancelAction(r) =>
              IF r \in runningActions THEN Cancels(r) ELSE CancelIsNoOp]_vars

\* C25 as amended: cancelAction returns true, stores the cancelled result and
\* removes the id when the id is in the running table and its process has not
\* reported an exit code; on every other id, an id in the running table whose
\* process has already exited with a code included, it returns false and
\* changes nothing.
C25_CancelRunningOrNoOp ==
    [][\A r \in RunIds :
          cancelAction(r) =>
              IF r \in runningActions /\ proc[r].exitCode = "null"
              THEN Cancels(r)
              ELSE CancelIsNoOp]_vars

\* cancelAction has returned false on an id that is in the running table and
\* whose process has exited with a code.
C25_Witness ==
    /\ ret.op = "cancelAction"
    /\ ret.result = FALSE
    /\ ret.runId \in runningActions
    /\ proc[ret.runId].state = "exited"
    /\ proc[ret.runId].exitCode = "number"

\* C26: when the grace timer set by cancelAction fires and the process has
\* still not exited, the kill signal is sent to it.
C26_GraceKill ==
    [][\A r \in RunIds :
          (cancelGraceTimer(r) /\ proc[r].state = "alive") =>
              "SIGKILL" \in proc'[r].signals]_vars

-----------------------------------------------------------------------------
(* Calls of the generative backend (BaseLLMClient.retryWithBackoff) *)

\* maxRetries of retryWithBackoff.
MaxRetries == 3

\* The delay before the first retry, in milliseconds.
BaseDelayMs == 1000

RECURSIVE Pow2(_)
Pow2(n) ==
    IF n = 0 THEN 1 ELSE 2 * Pow2(n - 1)

\* The methods that run their request under retryWithBackoff.
Sites ==
    {"openai.generateText", "openai.generateStructured",
     "ollama.generateText", "ollama.generateStructured"}

\* What one run of the operation can end in: a value; the client's timeout
\* (error.code ECONNABORTED); a response with an HTTP error status; a network
\* error with no response; for the structured calls, a reply that is not JSON
\* (LLMValidationError thrown by the operation itself).
AttemptOutcomes(site) ==
    {"ok", "ECONNABORTED", "http429", "http500", "http503", "network"}
        \cup (IF site \in {"openai.generateStructured", "ollama.generateStructured"}
              THEN {"invalid_json"} ELSE {})

\* The error retryWithBackoff throws at once for an outcome, "" when it goes on
\* to the retry test.
ThrownAtOnce(o) ==
    CASE o = "ECONNABORTED" -> "LLMTimeoutError"
      [] o = "http429" -> "LLMRateLimitError"
      [] o \in {"http500", "http503"} -> "LLMError: HTTP error"
      [] OTHER -> ""

\* A method of an LLM client is called.
callBackend(site) ==
    /\ llm.pc = "idle"
    /\ llm' = [NoCall EXCEPT !.pc = "attempting", !.site = site]
    /\ UNCHANGED <<actionVars, planVars, cand, ret, agent, config, events, feedback,
                   feedbackHandler, runs, registryVars, stored>>

\* One pass of the loop of retryWithBackoff: the operation ends in outcome o.
attempt(o) ==
    /\ llm.pc = "attempting"
    /\ UNCHANGED <<actionVars, planVars, cand, ret, agent, config, events, feedback,
                   feedbackHandler, runs, registryVars, stored>>
    /\ LET tried == [llm EXCEPT !.outcomes = Append(@, o)]
       IN  IF o = "ok"
           THEN llm' = [tried EXCEPT !.pc = "returned", !.result = "value"]
           ELSE IF ThrownAtOnce(o) # ""
           THEN llm' = [tried EXCEPT !.pc = "threw", !.result = ThrownAtOnce(o)]
           ELSE IF llm.attempt = MaxRetries
           THEN llm' = [tried EXCEPT !.pc = "threw",
                                     !.result = "LLMError: Unexpected error"]
           ELSE llm' = [tried EXCEPT !.pc = "backoff",
                                     !.delays = Append(@, BaseDelayMs * Pow2(llm.attempt))]

\* The backoff delay has passed: the next pass of the loop.
backoffElapsed ==
    /\ llm.pc = "backoff"
    /\ llm' = [llm EXCEPT !.pc = "attempting", !.attempt = @ + 1]
    /\ UNCHANGED <<actionVars, planVars, cand, ret, agent, config, events, feedback,
                   feedbackHandler, runs, registryVars, stored>>

RetryNext ==
    \/ \E site \in Sites : callBackend(site)
    \/ \E o \in AttemptOutcomes(llm.site) : attempt(o)
    \/ backoffElapsed

RetrySpec == Init /\ [][RetryNext]_vars

\* C27: a call that fails with HTTP 429 or a 5xx status is retried with
\* exponential backoff: every such failure but the last allowed one is followed
\* by a delay of BaseDelayMs * 2^k before attempt k + 1, an error is thrown for
\* such a failure only when it is that of attempt number MaxRetries + 1, and a
\* call never makes more than MaxRetries + 1 attempts.
C27_RetryTransient ==
    LET n == Len(llm.outcomes)
        Transient == {"http429", "http500", "http503"}
    IN  /\ n <= MaxRetries + 1
        /\ (llm.pc = "threw" /\ llm.outcomes[n] \in Transient) => n = MaxRetries + 1
        /\ \A i \in 1..n :
              (llm.outcomes[i] \in Transient /\ i <= MaxRetries) =>
                  /\ Len(llm.delays) >= i
                  /\ llm.delays[i] = BaseDelayMs * Pow2(i - 1)

-----------------------------------------------------------------------------
(* Claims about the branches of Decider.next (specification DeciderSpec) *)

\* C28: with an advisory of status blocked, if some step of the plan is
\* blocked the backend is asked for a decision and, when that call fails
\* (it throws, or its answer cannot be read), the decision is {ask, hint
\* blocked} with a reason naming the first blocked step; if no step is blocked
\* the decision is {terminate, hint blocked} and the backend is not called.
C28_BlockedAdvisory ==
    (ret.op = "next" /\ ret.advisory.status = "blocked") =>
        IF HasBlockedSteps(cand)
        THEN /\ ret.calledBackend
             /\ ret.outcome \in {"throws", "null"} =>
                   /\ ret.decision.type = "ask"
                   /\ ret.decision.hint = "blocked"
                   /\ ret.decision.action = <<>>
                   /\ \E i \in 1..Len(cand.steps) :
                         /\ cand.steps[i].status = "blocked"
                         /\ \A j \in 1..(i - 1) : cand.steps[j].status # "blocked"
                         /\ ret.decision.reason =
                                "Plan is blocked at step " \o cand.steps[i].desc \o ". "
                                    \o ret.advisory.reason
        ELSE /\ ~ret.calledBackend
             /\ ret.decision.type = "terminate"
             /\ ret.decision.hint = "blocked"

\* The backend call failed on a plan whose second step is the first blocked one.
C28_Witness ==
    /\ ret.op = "next"
    /\ ret.advisory.status = "blocked"
    /\ ret.outcome = "throws"
    /\ Len(cand.steps) >= 2
    /\ cand.steps[1].status # "blocked"
    /\ cand.steps[2].status = "blocked"
    /\ ret.decision.type = "ask"

\* C29: in the normal path (advisory absent or continue), when the plan has
\* no running step and no pending step whose deps are all done, the backend is
\* not called and the decision is terminate with reason goal_achieved if every
\* step is done, wait otherwise.
C29_NoCurrentStep ==
    (/\ ret.op = "next"
     /\ ret.advisory.status \in {"none", "continue"}
     /\ findCurrentStep(cand) = 0) =>
        /\ ~ret.calledBackend
        /\ IF AllStepsDone(cand)
           THEN /\ ret.decision.type = "terminate"
                /\ ret.decision.reason = "goal_achieved"
           ELSE ret.decision.type = "wait"

-----------------------------------------------------------------------------
(* The local fallback of the decider (Decider.selectRelevantAction) *)

MaxFiller == 9

\* The minimum threshold 0.1 of selectRelevantAction, as its inverse.
ThresholdInverse == 10

\* Step descriptions as their lower-case words: up to MaxFiller words that no
\* action mentions, then some of the words actions mention.
StepDescs ==
    { [i \in 1..k |-> "the"] \o kw :
        k \in 0..MaxFiller,
        kw \in {<<>>, <<"search">>, <<"file">>, <<"search", "file">>} }

\* Steps: an id and a description.
SelectSteps ==
    [id : {"s1", "search"}, desc : StepDescs]

\* The action specs offered to the decider: name, words of the description, tags.
SearchWeb ==
    [name |-> "alpha", description |-> {"search", "web"}, tags |-> {"network"}]

SearchFile ==
    [name |-> "beta", description |-> {"search", "file"}, tags |-> {}]

ActionLists ==
    {<<>>, <<SearchWeb>>, <<SearchFile>>, <<SearchWeb, SearchFile>>,
     <<SearchFile, SearchWeb>>}

\* `${step.desc} ${step.id}`.toLowerCase().split(/\s+/): the words of the
\* description, then the id; an empty description leaves an empty first word.
StepWords(step) ==
    (IF step.desc = <<>> THEN <<"">> ELSE step.desc) \o <<step.id>>

\* `${name} ${description} ${tags.join(' ')}`.toLowerCase().split(/\s+/): an
\* action without tags leaves an empty last word.
ActionWords(a) ==
    {a.name} \cup a.description \cup (IF a.tags = {} THEN {""} ELSE a.tags)

\* stepWords.filter(word => actionWords.includes(word)).length
MatchCount(words, actionWords) ==
    Cardinality({ i \in 1..Len(words) : words[i] \in actionWords })

RECURSIVE SelectLatestFrom(_, _, _, _, _)
\* The loop with >= in place of > in the comparison with the best score.
SelectLatestFrom(words, actions, i, bestAction, bestCount) ==
    IF i > Len(actions) THEN bestAction
    ELSE LET count == MatchCount(words, ActionWords(actions[i]))
         IN  IF count >= bestCount /\ ThresholdInverse * count > Len(words)
             THEN SelectLatestFrom(words, actions, i + 1, i, count)
             ELSE SelectLatestFrom(words, actions, i + 1, bestAction, bestCount)

RECURSIVE SelectFrom(_, _, _, _, _)
\* The loop of selectRelevantAction from action i on. All scores have the
\* denominator Len(words), so score > bestScore compares the match counts and
\* score > 0.1 is count * 10 > Len(words).
SelectFrom(words, actions, i, bestAction, bestCount) ==
    IF i > Len(actions) THEN bestAction
    ELSE LET count == MatchCount(words, ActionWords(actions[i]))
         IN  IF count > bestCount /\ ThresholdInverse * count > Len(words)
             THEN SelectFrom(words, actions, i + 1, i, count)
             ELSE SelectFrom(words, actions, i + 1, bestAction, bestCount)

\* selectRelevantAction with the later action winning ties.
selectRelevantActionLatest(step, actions) ==
    SelectLatestFrom(StepWords(step), actions, 1, 0, 0)

\* selectRelevantAction(step, actions): the index of the action returned, 0
\* for undefined.
selectRelevantAction(step, actions) ==
    SelectFrom(StepWords(step), actions, 1, 0, 0)

\* A backend call that failed.
BackendFailure ==
    [kind |-> "throws", type |-> "", action |-> <<>>, reason |-> "", hint |-> ""]

\* A plan whose current step is its only step.
OneStepPlan ==
    [task |-> "task",
     steps |-> <<[id |-> StepId(1), desc |-> "d1", status |-> "pending", deps |-> <<>>]>>,
     updatedAt |-> Created]

SelectInit ==
    /\ InitEngine
    /\ cand \in [step : SelectSteps, actions : ActionLists]

\* makeNormalDecision on the step, the backend call having failed.
callFallback ==
    /\ ret.op = "none"
    /\ LET chosen == selectRelevantAction(cand.step, cand.actions)
       IN  ret' = [op |-> "selectRelevantAction",
                   chosen |-> chosen,
                   decision |-> makeNormalDecision(OneStepPlan, BackendFailure,
                                    IF chosen = 0 THEN "" ELSE cand.actions[chosen].name)]
    /\ UNCHANGED <<actionVars, planVars, cand, agentVars>>

SelectNext == callFallback

SelectSpec == SelectInit /\ [][SelectNext]_vars

\* The decision the fallback must return when every candidate k has `count[k]`
\* matching words out of `total`: execute of the earliest candidate of maximal
\* count whose score count/total is above 0.1, ask when there is none.
FallbackDecisionIs(count, total) ==
    LET above == { k \in DOMAIN count : ThresholdInverse * count[k] > total }
    IN  IF above = {}
        THEN ret.decision.type = "ask"
        ELSE /\ ret.decision.type = "execute"
             /\ \E k \in above :
                   /\ \A j \in DOMAIN count : count[j] <= count[k]
                   /\ \A j \in 1..(k - 1) : count[j] < count[k]
                   /\ ret.decision.action[1].name = cand.actions[k].name

\* C30: when the backend call fails in the normal path, every candidate is
\* scored by the number of words of the step description that occur in the
\* action's name, description and tags, divided by the number of words of the
\* step description; the decision is execute of the earliest candidate whose
\* score is maximal and above 0.1, and ask if no candidate scores above 0.1.
C30_FallbackByDescription ==
    ret.op = "selectRelevantAction" =>
        FallbackDecisionIs(
            [k \in 1..Len(cand.actions) |->
                MatchCount(cand.step.desc,
                           {cand.actions[k].name} \cup cand.actions[k].description
                               \cup cand.actions[k].tags)],
            Len(cand.step.desc))

\* C30 as amended: the words scored are those of the step text, the
\* description followed by the step id split at white space (an empty
\* description counting as one empty word), matched against the words of the
\* action's name, description and tags (an action without tags having an empty
\* word), and the divisor is the number of words of the step text.
C30_FallbackByStepText ==
    LET total == IF cand.step.desc = <<>> THEN 2 ELSE Len(cand.step.desc) + 1
        word(i) == IF i = total THEN cand.step.id
                   ELSE IF cand.step.desc = <<>> THEN ""
                   ELSE cand.step.desc[i]
        occurs(w, a) == \/ w = a.name
                        \/ w \in a.description
                        \/ w \in a.tags
                        \/ w = "" /\ a.tags = {}
    IN  ret.op = "selectRelevantAction" =>
            FallbackDecisionIs(
                [k \in 1..Len(cand.actions) |->
                    Cardinality({ i \in 1..total : occurs(word(i), cand.actions[k]) })],
                total)

\* Two candidates tie on a step whose description has words both mention, and
\* the earlier one is executed.
C30_Witness ==
    /\ ret.op = "selectRelevantAction"
    /\ cand.actions = <<SearchFile, SearchWeb>>
    /\ cand.step.desc = <<"the", "search">>
    /\ ret.decision.type = "execute"
    /\ ret.decision.action[1].name = "beta"

-----------------------------------------------------------------------------
(* Claims on the stored results *)

\* C31: every ActionResult in the result ledger has a status among ok, error and
\* timeout, whatever the action process printed and whatever its exit code.
C31_StatusInRange ==
    \A r \in DOMAIN completedActions :
        completedActions[r] # NoResult =>
            completedActions[r].status \in {"ok", "error", "timeout"}

-----------------------------------------------------------------------------
(* The registry under reloadActions *)

\* reloadActions up to its await: the registry is cleared and loadActions starts.
reloadActions ==
    /\ loader = 0
    /\ stored = <<>>
    /\ registry' = <<>>
    /\ loader' = 1
    /\ UNCHANGED <<actionVars, planVars, cand, ret, agent, config, events, feedback,
                   feedbackHandler, runs, llm, stored>>

\* loadActions resumes after the awaits on one directory entry and registers it
\* (every directory holds meta.json and perform.js, before and after the reload).
loadActions ==
    /\ loader \in 1..Len(ActionOrder)
    /\ registry' = IF Registered(ActionOrder[loader])
                   THEN registry
                   ELSE Append(registry, ActionOrder[loader])
    /\ loader' = IF loader = Len(ActionOrder) THEN 0 ELSE loader + 1
    /\ UNCHANGED <<actionVars, planVars, cand, ret, agent, config, events, feedback,
                   feedbackHandler, runs, llm, stored>>

\* One run in auto mode, with reloadActions callable at any moment.
ReloadInit ==
    AgentInitOver(AgentRunIds,
                  {[executionMode |-> "auto", implicitSuccessOnOk |-> TRUE,
                    hasHandler |-> FALSE]})

ReloadNext ==
    \/ AgentNext
    \/ reloadActions
    \/ loadActions

ReloadSpec == ReloadInit /\ [][ReloadNext]_vars

\* The run started by ask has not ended.
RunInProgress ==
    agent.pc \in {"orchestrate", "loop", "waiting"}

\* C32: during a run the registry does not change, and every action that is on
\* disk throughout is registered (perform resolves it).
C32_RegistryImmutable ==
    [][RunInProgress =>
          /\ registry' = registry
          /\ \A i \in 1..Len(ActionOrder) : Registered(ActionOrder[i])]_vars

-----------------------------------------------------------------------------
(* The order of storage and the eviction *)

\* The engine of LedgerSpec, with the order in which results are stored recorded.
EvictNext ==
    \/ \E r \in LedgerIds : perform("beta", {}, r, "ok") /\ UNCHANGED agentVars
    \/ \E r \in LedgerIds : processExit(r, "code") /\ UNCHANGED agentVars
    \/ \E r \in LedgerIds :
          /\ handleProcessCompletion(r, "json_ok")
          /\ stored' = Append(stored, r)
          /\ UNCHANGED <<agent, config, events, feedback, feedbackHandler, runs, llm,
                         registryVars>>
    \/ /\ TotalFeedback(DOMAIN feedback) < MaxFeedback
       /\ \E r \in LedgerIds, f \in Feedbacks :
             /\ runName[r] # ""
             /\ addFeedback(r, f)
    \/ \E maxKeep \in 0..Cardinality(LedgerIds) : cleanupCompletedActions(maxKeep)

EvictSpec == LedgerInit /\ [][EvictNext]_vars

\* The position of run id r in the order of storage.
StoredAt(r) ==
    CHOOSE i \in 1..Len(stored) : stored[i] = r

\* C33: when cleanupCompletedActions evicts, every result it keeps was stored
\* no earlier than every result it evicts.
C33_KeepsMostRecent ==
    [][\A maxKeep \in 0..Cardinality(LedgerIds) :
          (Cardinality(Completed) > maxKeep /\ cleanupCompletedActions(maxKeep)) =>
              \A kept \in Completed', evicted \in Completed \ Completed' :
                  StoredAt(kept) >= StoredAt(evicted)]_vars

-----------------------------------------------------------------------------
(* Termination of a run *)

\* One run under fair scheduling: every backend call returns, every process
\* exits or is timed out, every timer fires, so a step that can be taken is taken.
AgentFairSpec == AgentInit /\ [][AgentNext]_vars /\ WF_vars(AgentNext)

\* A run_finished event has been emitted.
RunFinished ==
    \E i \in 1..Len(events) : events[i].type = "run_finished"

\* The loop is at the bound on the actions of a run.
AtMaxActions ==
    agent.pc = "loop" /\ \A r \in DOMAIN runName : runName[r] # ""

\* C34: every run started by ask eventually emits a run_finished event (runs
\* cut at the bound on their actions aside).
C34_RunFinishes ==
    (agent.pc # "idle") ~> (RunFinished \/ AtMaxActions)

-----------------------------------------------------------------------------
(* The result handed to the loop and the ledger *)

\* C35: the result carried by the action_result event of a run (and folded into
\* the plan) is the one the ledger holds for that run id: whenever getResult
\* returns a result afterwards, it has the status of the event.
C35_ResultIsLedger ==
    \A i \in 1..Len(events) :
        (events[i].type = "action_result" /\ getResult(agent.actionRunId) # NoResult) =>
            getResult(agent.actionRunId).status = events[i].status

\* C36: the name of every stored ActionResult is the action name passed to the
\* perform call that returned its run id.
C36_ResultNameIsPerformed ==
    \A r \in DOMAIN completedActions :
        completedActions[r] # NoResult => completedActions[r].name = runName[r]

-----------------------------------------------------------------------------
(* The arguments of the decider's fallback (inferActionArgs as a function) *)

MaxArgs == 3

\* meta.arguments of an action: definitions with a name and the required flag.
ArgDefs ==
    [name : {"query", "prompt", "step_id", "path"}, required : BOOLEAN]

\* The argument lists of up to n definitions.
ArgumentLists(n) ==
    UNION { [1..k -> ArgDefs] : k \in 0..n }

\* The current step: its id and its description.
InferSteps ==
    [id : {"s1"}, desc : {"", "find the file"}]

\* args[name] = value on a Record<string, any>.
SetArg(args, name, value) ==
    [k \in DOMAIN args \cup {name} |-> IF k = name THEN value ELSE args[k]]

RECURSIVE InferRequiredByNameFrom(_, _, _, _)
\* The loop without its last branch: a required argument with another name than
\* query, prompt and step_id gets no value.
InferRequiredByNameFrom(step, arguments, i, args) ==
    IF i > Len(arguments) THEN args
    ELSE IF arguments[i].name \in {"query", "prompt"}
    THEN InferRequiredByNameFrom(step, arguments, i + 1,
                                 SetArg(args, arguments[i].name, step.desc))
    ELSE IF arguments[i].name = "step_id"
    THEN InferRequiredByNameFrom(step, arguments, i + 1,
                                 SetArg(args, arguments[i].name, step.id))
    ELSE InferRequiredByNameFrom(step, arguments, i + 1, args)

RECURSIVE InferFrom(_, _, _, _)
\* The loop of inferActionArgs from argument definition i on.
InferFrom(step, arguments, i, args) ==
    IF i > Len(arguments) THEN args
    ELSE IF arguments[i].name \in {"query", "prompt"}
    THEN InferFrom(step, arguments, i + 1, SetArg(args, arguments[i].name, step.desc))
    ELSE IF arguments[i].name = "step_id"
    THEN InferFrom(step, arguments, i + 1, SetArg(args, arguments[i].name, step.id))
    ELSE IF ~arguments[i].required
    THEN InferFrom(step, arguments, i + 1, args)
    ELSE InferFrom(step, arguments, i + 1, SetArg(args, arguments[i].name, step.desc))

\* inferActionArgs with the placeholder for other required arguments left out.
inferActionArgsByNameOnly(step, arguments) ==
    InferRequiredByNameFrom(step, arguments, 1, <<>>)

\* inferActionArgs(step, action), on action.meta.arguments.
inferActionArgsOf(step, arguments) ==
    InferFrom(step, arguments, 1, <<>>)

\* validateArguments(meta, args) on meta.arguments: "" when it returns, else
\* the message of the Error it throws.
validateArgumentsOf(arguments, args) ==
    IF \E i \in 1..Len(arguments) :
          arguments[i].required /\ arguments[i].name \notin DOMAIN args
    THEN "Required argument missing"
    ELSE ""

InferInit ==
    /\ InitEngine
    /\ cand \in [step : InferSteps, arguments : ArgumentLists(MaxArgs)]

\* The fallback of makeNormalDecision builds the arguments of its execute
\* decision, and Action.perform validates them.
callInferActionArgs ==
    /\ ret.op = "none"
    /\ LET args == inferActionArgsOf(cand.step, cand.arguments)
       IN  ret' = [op |-> "inferActionArgs", args |-> args,
                   error |-> validateArgumentsOf(cand.arguments, args)]
    /\ UNCHANGED <<actionVars, planVars, cand, agentVars>>

InferNext == callInferActionArgs

InferSpec == InferInit /\ [][InferNext]_vars

\* C37: the execute decision of the local fallback has a value for every
\* argument its action marks as required, so perform records no 'Required
\* argument missing' error; an argument other than query, prompt and step_id
\* that no definition marks as required is absent.
C37_RequiredArgsInferred ==
    ret.op = "inferActionArgs" =>
        /\ \A i \in 1..Len(cand.arguments) :
              cand.arguments[i].required => cand.arguments[i].name \in DOMAIN ret.args
        /\ ret.error = ""
        /\ \A n \in DOMAIN ret.args :
              n \notin {"query", "prompt", "step_id"} =>
                  \E i \in 1..Len(cand.arguments) :
                      cand.arguments[i].name = n /\ cand.arguments[i].required

\* The action has a required argument the heuristics cannot name, an optional
\* one they skip and an optional query they fill in.
C37_Witness ==
    /\ ret.op = "inferActionArgs"
    /\ cand.arguments = <<[name |-> "path", required |-> TRUE],
                          [name |-> "query", required |-> FALSE],
                          [name |-> "step_id", required |-> FALSE]>>
    /\ DOMAIN ret.args = {"path", "query", "step_id"}
    /\ ret.args["path"] = cand.step.desc
    /\ ret.args["step_id"] = cand.step.id

-----------------------------------------------------------------------------
(* The frame of updateFromAction (specification PlanSpec) *)

\* C38: updateFromAction changes at most one step: the first running step, to
\* done for a result ok and to blocked for error or timeout; every other step
\* keeps its status, and the ids, descriptions, deps, order and number of the
\* steps and the task of the plan are unchanged.
C38_UpdateFromActionFrame ==
    [][\A res \in ResultStatuses :
          updateFromAction(res) =>
              LET cur == FirstWithStatus(plan, {"running"})
              IN  /\ plan'.task = plan.task
                  /\ Len(plan'.steps) = Len(plan.steps)
                  /\ \A i \in 1..Len(plan.steps) :
                        /\ plan'.steps[i].id = plan.steps[i].id
                        /\ plan'.steps[i].desc = plan.steps[i].desc
                        /\ plan'.steps[i].deps = plan.steps[i].deps
                        /\ i # cur => plan'.steps[i].status = plan.steps[i].status
                  /\ cur # 0 =>
                        plan'.steps[cur].status =
                            IF res = "ok" THEN "done"
                            ELSE IF res \in {"error", "timeout"} THEN "blocked"
                            ELSE "running"]_vars

\* updateFromAction has just blocked the first of two running steps and left
\* the second one running.
C38_Witness ==
    /\ ret.op = "updateFromAction"
    /\ \E i, j \in 1..Len(plan.steps) :
          /\ i < j
          /\ plan.steps[i].status = "blocked"
          /\ plan.updatedAt = Later
          /\ plan.steps[j].status = "running"
          /\ \A k \in 1..(i - 1) : plan.steps[k].status = "done"

-----------------------------------------------------------------------------
(* The execution mode of a run *)

\* options.executionMode of ask: absent (""), or one of the two modes.
ModeOptions == {"", "interactive", "auto"}

\* Agent.ask(text, files, {executionMode}): the mode of the handle and of the
\* run_started payload is the option, or that of the configuration without one.
askWithOptions(executionMode) ==
    /\ agent.pc = "idle"
    /\ agent' = [agent EXCEPT !.pc = "orchestrate",
                              !.handle = IF executionMode # ""
                                         THEN executionMode
                                         ELSE config.executionMode]
    /\ events' = events \o InitEvents
    /\ ret' = [op |-> "ask", threw |-> FALSE]
    /\ UNCHANGED <<actionVars, plan, okFed, cand, feedback, config, sideVars>>

ModeNext ==
    \/ \E executionMode \in ModeOptions : askWithOptions(executionMode)
    \/ AgentSteps

ModeSpec == AgentInit /\ [][ModeNext]_vars

\* C39: the mode in the handle governs the run: once an action of the run has
\* given its result, feedback has been collected for it exactly when the mode of
\* the handle is interactive.
C39_HandleModeGoverns ==
    (\E i \in 1..Len(events) : events[i].type = "action_result") =>
        ((\E i \in 1..Len(events) : events[i].type = "feedback_received")
            <=> agent.handle = "interactive")

-----------------------------------------------------------------------------
(* Timers that fire late *)

\* The action engine over the run ids of LedgerIds: several runs of an action
\* in flight, each with its own process and timer.
TimerInit ==
    AgentInitOver(LedgerIds, {DefaultConfig})

TimerNext ==
    \/ \E r \in LedgerIds : perform("beta", {}, r, "ok") /\ UNCHANGED agentVars
    \/ \E r \in LedgerIds : scheduleTimeout(r) /\ UNCHANGED agentVars
    \/ \E r \in LedgerIds, out \in {"garbage", "json_ok"} :
          handleProcessCompletion(r, out) /\ UNCHANGED agentVars
    \/ \E r \in LedgerIds, closes \in BOOLEAN : processError(r, closes) /\ UNCHANGED agentVars
    \/ \E r \in LedgerIds, how \in {"code", "signal"} :
          processExit(r, how) /\ UNCHANGED agentVars
    \/ \E r \in LedgerIds : cancelAction(r) /\ UNCHANGED agentVars
    \/ \E r \in LedgerIds : cancelGraceTimer(r) /\ UNCHANGED agentVars

TimerSpec == TimerInit /\ [][TimerNext]_vars

\* C40: a timeoutSec timer that fires when its run already has a stored result
\* sends no signal and leaves the running table, the result ledger and the
\* feedback ledger as they are; and a timer changes nothing of any other run.
C40_LateTimerNoOp ==
    [][\A r \in LedgerIds :
          scheduleTimeout(r) =>
              /\ completedActions[r] # NoResult =>
                    /\ proc' = proc
                    /\ runningActions' = runningActions
                    /\ completedActions' = completedActions
                    /\ feedback' = feedback
              /\ \A q \in LedgerIds \ {r} :
                    /\ proc'[q] = proc[q]
                    /\ completedActions'[q] = completedActions[q]
                    /\ feedback'[q] = feedback[q]
                    /\ q \in runningActions' <=> q \in runningActions
                    /\ q \in timers' <=> q \in timers]_vars

\* The timer of a cancelled run has fired after the cancellation (the result
\* and the one signal are those of cancelAction), while another run is still
\* in flight with its timer armed.
C40_Witness ==
    \E r \in LedgerIds :
        /\ proc[r].signals = {"SIGTERM"}
        /\ r \notin timers
        /\ completedActions[r].error = "Action was cancelled"
        /\ \E q \in LedgerIds \ {r} : q \in runningActions /\ q \in timers

====
